---- MODULE Spec2Model ----
(***************************************************************************)
(* Model of the document assembly and realignment engine of ocr_module:    *)
(* translation realignment, formula threading, paragraph/line correlation, *)
(* section resolution, the section-translation fan-outs and the per-page   *)
(* rendering fan-outs.  Each component has its own specification; the      *)
(* variables of the other components stay at "idle" under it.              *)
(***************************************************************************)
EXTENDS Integers, Sequences, FiniteSets, TLC

VARIABLES
    \* GetTranslatedPageUseCase (usecase/get_translated_page.py)
    rl_pc, pages, translated_sections, page_with_translations,
    \* formula threading (azure_ocr_repository1.py, pylatex_generate_pdf_repository.py)
    th_pc, th_result, th_page, th_latex,
    \* _get_textlines_in_paragraph (adapters/infra/azure/ocr_repository.py, both versions)
    ln_pc, text_lines, paragraph_span, ln_binary, ln_linear,
    \* section resolution: the recognition result, AzureOCRRepository.get_document's
    \* outcome (azure_ocr_repository1.py) and AzureOcrRepository._get_sections' pool
    \* (ocr_repository.py)
    sc_pc, sc_result, sc_document, sc_futures, sc_sections,
    \* TranslateSectionFormulaIdUseCase.execute / TranslateSectionUseCase.execute
    fo_pc, fo_usecase, fo_sections, fo_provider, fo_futures,
    section_with_translations, usage_stats,
    \* TranslateSectionFormulaIdUseCase.execute_async
    as_pc, as_sections, as_tasks, sections_with_translation,
    \* per-page rendering: GenerateTranslatedPDFWithFormulaIdUseCase,
    \* GenerateTranslatedPdfUseCase, OCRPDFUseCase
    pd_pc, pd_usecase, pd_pages, output_path, pd_render, pd_futures,
    page_pdf_paths, pd_merged,
    \* OpenAITranslateSectionRepository.translate_paragraphs /
    \* translate_paragraphs_with_formula_id
    tp_pc, tp_method, tp_paragraphs, tp_response, paragraphs_with_translation,
    \* AzureOCRRepository.get_document (azure_ocr_repository1.py)
    doc_pc, doc_result, doc_document,
    \* DevAzureOcrRepository.get_sections (azure_ocr_repository.py)
    dev_pc, dev_result, dev_sections, display_formulas, dev_returned,
    \* AzureOcrRepository page analysis (adapters/infra/azure/ocr_repository.py)
    oc_pc, self_pages, oc_page, current_inline_formula_idx, page_text_lines, page_cache,
    oc_returned,
    \* _get_line_style (adapters/infra/azure/ocr_repository.py, both versions)
    st_pc, line_span, st_styles, st_binary, st_linear,
    \* ChangeFormulaIdUseCase (usecase/change_formula_id.py)
    cf_pc, cf_input, cf_pages, cf_sections,
    \* _process_page of the rendering use cases (usecase/ocr_pdf.py and others)
    rn_pc, rn_usecase, rn_input, rn_page, rn_first, rn_second,
    \* AzureOcrRepository.get_sections on one instance (azure/ocr_repository.py)
    repo_pc, repo_results, repo_call, repo_self, repo_cache, repo_todo, repo_sections,
    repo_failed,
    \* _request_translate (openai_translate_section_repository.py)
    rt_pc, rt_repository, retry_limit, retry_count, rt_attempts, rt_result

rlVars == <<rl_pc, pages, translated_sections, page_with_translations>>
thVars == <<th_pc, th_result, th_page, th_latex>>

lnVars == <<ln_pc, text_lines, paragraph_span, ln_binary, ln_linear>>
scVars == <<sc_pc, sc_result, sc_document, sc_futures, sc_sections>>
foVars == <<fo_pc, fo_usecase, fo_sections, fo_provider, fo_futures,
           section_with_translations, usage_stats>>
asVars == <<as_pc, as_sections, as_tasks, sections_with_translation>>
pdVars == <<pd_pc, pd_usecase, pd_pages, output_path, pd_render, pd_futures,
           page_pdf_paths, pd_merged>>

tpVars == <<tp_pc, tp_method, tp_paragraphs, tp_response, paragraphs_with_translation>>

docVars == <<doc_pc, doc_result, doc_document>>

devVars == <<dev_pc, dev_result, dev_sections, display_formulas, dev_returned>>

ocVars == <<oc_pc, self_pages, oc_page, current_inline_formula_idx, page_text_lines, page_cache, oc_returned>>

stVars == <<st_pc, line_span, st_styles, st_binary, st_linear>>

cfVars == <<cf_pc, cf_input, cf_pages, cf_sections>>

rnVars == <<rn_pc, rn_usecase, rn_input, rn_page, rn_first, rn_second>>

repoVars == <<repo_pc, repo_results, repo_call, repo_self, repo_cache, repo_todo, repo_sections, repo_failed>>

rtVars == <<rt_pc, rt_repository, retry_limit, retry_count, rt_attempts, rt_result>>

vars == <<rlVars, thVars, lnVars, scVars, foVars, asVars, pdVars, tpVars, docVars, devVars, ocVars, stVars, cfVars, rnVars, repoVars, rtVars>>

\* what the operations of one component leave alone: the other components
RealignFrame == UNCHANGED <<thVars, lnVars, scVars, foVars, asVars, pdVars, tpVars, docVars, devVars, ocVars, stVars, cfVars, rnVars, repoVars, rtVars>>
ThreadFrame == UNCHANGED <<rlVars, lnVars, scVars, foVars, asVars, pdVars, tpVars, docVars, devVars, ocVars, stVars, cfVars, rnVars, repoVars, rtVars>>
LinesFrame == UNCHANGED <<rlVars, thVars, scVars, foVars, asVars, pdVars, tpVars, docVars, devVars, ocVars, stVars, cfVars, rnVars, repoVars, rtVars>>
SectionsFrame == UNCHANGED <<rlVars, thVars, lnVars, foVars, asVars, pdVars, tpVars, docVars, devVars, ocVars, stVars, cfVars, rnVars, repoVars, rtVars>>
FanOutFrame == UNCHANGED <<rlVars, thVars, lnVars, scVars, asVars, pdVars, tpVars, docVars, devVars, ocVars, stVars, cfVars, rnVars, repoVars, rtVars>>
AsyncFrame == UNCHANGED <<rlVars, thVars, lnVars, scVars, foVars, pdVars, tpVars, docVars, devVars, ocVars, stVars, cfVars, rnVars, repoVars, rtVars>>
PdfFrame == UNCHANGED <<rlVars, thVars, lnVars, scVars, foVars, asVars, tpVars, docVars, devVars, ocVars, stVars, cfVars, rnVars, repoVars, rtVars>>
BatchFrame == UNCHANGED <<rlVars, thVars, lnVars, scVars, foVars, asVars, pdVars, docVars, devVars, ocVars, stVars, cfVars, rnVars, repoVars, rtVars>>
DocumentFrame == UNCHANGED <<rlVars, thVars, lnVars, scVars, foVars, asVars, pdVars, tpVars, devVars, ocVars, stVars, cfVars, rnVars, repoVars, rtVars>>
DevFrame == UNCHANGED <<rlVars, thVars, lnVars, scVars, foVars, asVars, pdVars, tpVars, docVars, ocVars, stVars, cfVars, rnVars, repoVars, rtVars>>
OcrFrame == UNCHANGED <<rlVars, thVars, lnVars, scVars, foVars, asVars, pdVars, tpVars, docVars, devVars, stVars, cfVars, rnVars, repoVars, rtVars>>
StyleFrame == UNCHANGED <<rlVars, thVars, lnVars, scVars, foVars, asVars, pdVars, tpVars, docVars, devVars, ocVars, cfVars, rnVars, repoVars, rtVars>>
ChangeFrame == UNCHANGED <<rlVars, thVars, lnVars, scVars, foVars, asVars, pdVars, tpVars, docVars, devVars, ocVars, stVars, rnVars, repoVars, rtVars>>
RenderFrame == UNCHANGED <<rlVars, thVars, lnVars, scVars, foVars, asVars, pdVars, tpVars, docVars, devVars, ocVars, stVars, cfVars, repoVars, rtVars>>
RepoFrame == UNCHANGED <<rlVars, thVars, lnVars, scVars, foVars, asVars, pdVars, tpVars, docVars, devVars, ocVars, stVars, cfVars, rnVars, rtVars>>
RetryFrame == UNCHANGED <<rlVars, thVars, lnVars, scVars, foVars, asVars, pdVars, tpVars, docVars, devVars, ocVars, stVars, cfVars, rnVars, repoVars>>

----------------------------------------------------------------------------
(* Helpers *)

SeqsUpTo(S, n) == UNION {[1..k -> S] : k \in 0..n}

Range(s) == {s[i] : i \in 1..Len(s)}

\* the ascending enumeration of a finite set of integers
RECURSIVE SetToSortedSeq(_)
SetToSortedSeq(S) ==
    IF S = {} THEN <<>>
    ELSE LET m == CHOOSE x \in S : \A y \in S : x <= y
         IN <<m>> \o SetToSortedSeq(S \ {m})

\* list.sort / sorted(key=...): a stable insertion of the pair <<key, item>>
RECURSIVE InsertPair(_, _)
InsertPair(p, s) ==
    IF s = <<>> THEN <<p>>
    ELSE IF Head(s)[1] <= p[1] THEN <<Head(s)>> \o InsertPair(p, Tail(s))
    ELSE <<p>> \o s

RECURSIVE SortPairs(_, _)
SortPairs(ps, acc) ==
    IF ps = <<>> THEN acc ELSE SortPairs(Tail(ps), InsertPair(Head(ps), acc))

\* items sorted by ascending keys[i], equal keys keeping their order
StableSort(items, keys) ==
    LET sorted == SortPairs([i \in 1..Len(items) |-> <<keys[i], items[i]>>], <<>>)
    IN [i \in 1..Len(sorted) |-> sorted[i][2]]

----------------------------------------------------------------------------
(* TranslationRealigner: GetTranslatedPageUseCase *)

MaxParagraphId == 1
MaxRealignPages == 2
MaxRealignSections == 2

ParagraphIds == 0..MaxParagraphId

\* Paragraph.content of the flat-array paragraph with this id
ContentOf(id) == <<"content", id>>

\* a page-scoped Paragraph (domain/entities/page_models.py)
Paragraph(id, pn) ==
    [paragraph_id |-> id, role |-> "body", content |-> ContentOf(id), page_number |-> pn]

\* a section-scoped translated paragraph as the provider of section s returns it
ParagraphWithTranslation(id, pn, tr) ==
    [paragraph_id |-> id, role |-> "body", content |-> ContentOf(id),
     page_number |-> pn, translation |-> tr]

\* Page entity: the non-paragraph fields are fixed by the page number
Page(pn, paras) ==
    [page_number |-> pn, width |-> 8, height |-> 11,
     formulas |-> <<"formulas", pn>>, display_formulas |-> <<"display", pn>>,
     figures |-> <<"figures", pn>>, tables |-> <<"tables", pn>>,
     paragraphs |-> paras]

\* the pages a document with page assignment pageOf (0: on no page) has:
\* every page lists its paragraphs in flat-array order
RealignPages(n, pageOf) ==
    [pn \in 1..n |->
        Page(pn, LET ids == SetToSortedSeq({id \in ParagraphIds : pageOf[id] = pn})
                 IN [j \in 1..Len(ids) |-> Paragraph(ids[j], pn)])]

\* the translated sections: section s holds the paragraphs whose id is in it
RealignSections(n, secsOf, pageOf) ==
    [s \in 1..n |->
        [section_id |-> s - 1,
         paragraphs |->
            LET ids == SetToSortedSeq({id \in ParagraphIds : s \in secsOf[id]})
            IN [j \in 1..Len(ids) |->
                    ParagraphWithTranslation(ids[j], pageOf[ids[j]],
                                             <<"translated", s, ids[j]>>)]]]

\* mutant: the first entry seen for a paragraph id is kept
RECURSIVE DictKeepingFirst(_, _)
DictKeepingFirst(paras, dict) ==
    IF paras = <<>> THEN dict
    ELSE LET p == Head(paras)
             d2 == [k \in (DOMAIN dict) \cup {p.paragraph_id} |->
                        IF k \in DOMAIN dict THEN dict[k] ELSE p]
         IN DictKeepingFirst(Tail(paras), d2)

\* _get_page_paragraphs: paragraph_id -> ParagraphWithTranslation, later entries
\* overwrite earlier ones
RECURSIVE DictOfParagraphs(_, _)
DictOfParagraphs(paras, dict) ==
    IF paras = <<>> THEN dict
    ELSE LET p == Head(paras)
             d2 == [k \in (DOMAIN dict) \cup {p.paragraph_id} |->
                        IF k = p.paragraph_id THEN p ELSE dict[k]]
         IN DictOfParagraphs(Tail(paras), d2)

RECURSIVE GetPageParagraphsFrom(_, _)
GetPageParagraphsFrom(sections, dict) ==
    IF sections = <<>> THEN dict
    ELSE GetPageParagraphsFrom(Tail(sections),
                               DictOfParagraphs(Head(sections).paragraphs, dict))

EmptyDict == [k \in {} |-> 0]

GetPageParagraphs(sections) == GetPageParagraphsFrom(sections, EmptyDict)

\* mutant: a paragraph without a translated entry gets an empty translation
ConvertPageDroppingFallback(page, paragraph_dict) ==
    [page_number |-> page.page_number, width |-> page.width, height |-> page.height,
     formulas |-> page.formulas, display_formulas |-> page.display_formulas,
     figures |-> page.figures, tables |-> page.tables,
     paragraphs |->
        [j \in 1..Len(page.paragraphs) |->
            LET p == page.paragraphs[j]
            IN IF p.paragraph_id \in DOMAIN paragraph_dict
               THEN paragraph_dict[p.paragraph_id]
               ELSE ParagraphWithTranslation(p.paragraph_id, p.page_number, <<>>)]]

\* mutant: the page's display formulas are not carried over
ConvertPageDroppingDisplayFormulas(page, paragraph_dict) ==
    [page_number |-> page.page_number, width |-> page.width, height |-> page.height,
     formulas |-> page.formulas, display_formulas |-> <<>>,
     figures |-> page.figures, tables |-> page.tables,
     paragraphs |->
        [j \in 1..Len(page.paragraphs) |->
            LET p == page.paragraphs[j]
            IN IF p.paragraph_id \in DOMAIN paragraph_dict
               THEN paragraph_dict[p.paragraph_id]
               ELSE [paragraph_id |-> p.paragraph_id, role |-> p.role,
                     content |-> p.content, page_number |-> p.page_number,
                     translation |-> p.content]]]

\* _convert_page_to_page_with_translation
ConvertPageToPageWithTranslation(page, paragraph_dict) ==
    [page_number |-> page.page_number, width |-> page.width, height |-> page.height,
     formulas |-> page.formulas, display_formulas |-> page.display_formulas,
     figures |-> page.figures, tables |-> page.tables,
     paragraphs |->
        [j \in 1..Len(page.paragraphs) |->
            LET p == page.paragraphs[j]
            IN IF p.paragraph_id \in DOMAIN paragraph_dict
               THEN paragraph_dict[p.paragraph_id]
               ELSE [paragraph_id |-> p.paragraph_id, role |-> p.role,
                     content |-> p.content, page_number |-> p.page_number,
                     translation |-> p.content]]]

\* GetTranslatedPageUseCase.execute
GetTranslatedPageExecute(ps, secs) ==
    LET paragraph_dict == GetPageParagraphs(secs)
    IN [i \in 1..Len(ps) |-> ConvertPageToPageWithTranslation(ps[i], paragraph_dict)]

RealignIdle ==
    /\ rl_pc = "idle"
    /\ pages = "idle"
    /\ translated_sections = "idle"
    /\ page_with_translations = "idle"

RealignInit ==
    /\ rl_pc = "start"
    /\ \E np \in 0..MaxRealignPages, ns \in 0..MaxRealignSections :
         \E pageOf \in [ParagraphIds -> 0..np],
            secsOf \in [ParagraphIds -> SUBSET (1..ns)] :
              /\ pages = RealignPages(np, pageOf)
              /\ translated_sections = RealignSections(ns, secsOf, pageOf)
    /\ page_with_translations = <<>>

RealignExecute ==
    /\ rl_pc = "start"
    /\ page_with_translations' = GetTranslatedPageExecute(pages, translated_sections)
    /\ rl_pc' = "done"
    /\ UNCHANGED <<pages, translated_sections>>
    /\ RealignFrame

----------------------------------------------------------------------------
(* FormulaThreader: text is a sequence of tokens; ":formula:" is the          *)
(* placeholder token, "_" and "$" are characters escape_latex rewrites.       *)

MaxThreadParagraphs == 2
MaxThreadFormulas == 2

FORMULA == ":formula:"
INVALID_ARRAY == "\\begin{array}{}"

\* paragraph contents of the recognition result
ThreadContents ==
    { <<"a">>, <<FORMULA>>, <<"a", FORMULA, "_">>, <<FORMULA, "a", FORMULA>> }

\* formula values of the recognition result
ThreadValues == { <<"x">>, <<"y", "_">>, <<INVALID_ARRAY, "z">> }

ThreadKinds == {"inline", "display"}

\* str.count(token)
RECURSIVE Count(_, _)
Count(s, tok) ==
    IF s = <<>> THEN 0
    ELSE (IF Head(s) = tok THEN 1 ELSE 0) + Count(Tail(s), tok)

\* str.replace(token, repl, 1): the first occurrence only
RECURSIVE ReplaceFirst(_, _, _)
ReplaceFirst(s, tok, repl) ==
    IF s = <<>> THEN <<>>
    ELSE IF Head(s) = tok THEN repl \o Tail(s)
    ELSE <<Head(s)>> \o ReplaceFirst(Tail(s), tok, repl)

\* the placeholder <formula_n/> of the formula-id texts, and what escape_latex
\* makes of it
FormulaTag(n) == "<formula_" \o ToString(n) \o "/>"
EscapedFormulaTag(n) == "<formula\\_" \o ToString(n) \o "/>"
FormulaTagIds == 0..MaxThreadFormulas

\* the tag f"<<formula_{current_formula_id}>>" of ChangeFormulaIdUseCase, and
\* what escape_latex makes of it ('<' and '>' are not escaped)
ChangeFormulaTag(current_formula_id) == "<<formula_" \o ToString(current_formula_id) \o ">>"
EscapedChangeFormulaTag(n) == "<<formula\\_" \o ToString(n) \o ">>"
ChangeTagIds == 0..(2 * MaxThreadParagraphs)

\* pylatex.utils.escape_latex on the characters of the alphabet
EscapeChar(c) ==
    IF c = "_" THEN "\\_" ELSE IF c = "$" THEN "\\$"
    ELSE IF \E n \in FormulaTagIds : c = FormulaTag(n)
    THEN EscapedFormulaTag(CHOOSE n \in FormulaTagIds : c = FormulaTag(n))
    ELSE IF \E n \in ChangeTagIds : c = ChangeFormulaTag(n)
    THEN EscapedChangeFormulaTag(CHOOSE n \in ChangeTagIds : c = ChangeFormulaTag(n))
    ELSE c

EscapeLatex(s) == [i \in 1..Len(s) |-> EscapeChar(s[i])]

\* _analyze_result_to_pages: formulas_in_page[page_number], every formula of the
\* page in page order, whatever its kind
FormulasInPage(page_formulas, page_number) ==
    [i \in 1..Len(page_formulas) |->
        [formula_id |-> i - 1,
         latex_value |-> page_formulas[i].value,
         type |-> IF page_formulas[i].kind = "inline" THEN "inline" ELSE "display",
         page_number |-> page_number]]

\* the inner loop of convert_paragraphs_to_latex: `remaining` iterations left
RECURSIVE ThreadFormulas(_, _, _, _)
ThreadFormulas(content, formulas, current_formula_index, remaining) ==
    IF remaining = 0 \/ current_formula_index >= Len(formulas)
    THEN [content |-> content, formulas |-> formulas,
          current_formula_index |-> current_formula_index]
    ELSE LET formula == formulas[current_formula_index + 1]
             value == IF INVALID_ARRAY \in Range(formula.latex_value)
                      THEN <<"??">> ELSE formula.latex_value
             formulas2 == [formulas EXCEPT
                              ![current_formula_index + 1].latex_value = value]
         IN ThreadFormulas(ReplaceFirst(content, FORMULA, <<"$">> \o value \o <<"$">>),
                           formulas2, current_formula_index + 1, remaining - 1)

\* the paragraph loop of convert_paragraphs_to_latex from paragraph idx on
RECURSIVE ConvertFrom(_, _, _, _)
ConvertFrom(page_paragraphs, page_formulas, idx, current_formula_index) ==
    IF idx > Len(page_paragraphs)
    THEN [paragraphs |-> page_paragraphs, formulas |-> page_formulas]
    ELSE LET escaped == EscapeLatex(page_paragraphs[idx].content)
             num_formula == Count(escaped, FORMULA)
             r == ThreadFormulas(escaped, page_formulas, current_formula_index,
                                 num_formula)
         IN ConvertFrom([page_paragraphs EXCEPT ![idx].content = r.content],
                        r.formulas, idx + 1, r.current_formula_index)

\* convert_paragraphs_to_latex: the paragraphs and formulas as the call leaves them
\* (both are mutated in place; the paragraphs are also the return value)
ConvertParagraphsToLatex(page_paragraphs, page_formulas) ==
    ConvertFrom(page_paragraphs, page_formulas, 1, 0)

\* mutant: when the formulas are exhausted the last one is used again
RECURSIVE ThreadFormulasReusingLast(_, _, _, _)
ThreadFormulasReusingLast(content, formulas, current_formula_index, remaining) ==
    IF remaining = 0 \/ formulas = <<>>
    THEN [content |-> content, current_formula_index |-> current_formula_index]
    ELSE LET at == IF current_formula_index >= Len(formulas) THEN Len(formulas)
                   ELSE current_formula_index + 1
             formula == formulas[at]
         IN ThreadFormulasReusingLast(
               ReplaceFirst(content, FORMULA, <<"$">> \o formula.latex_value \o <<"$">>),
               formulas, current_formula_index + 1, remaining - 1)

\* the inner loop of convert_paragraphs_with_translation_to_latex: the formula's
\* value is inserted as it is
RECURSIVE ThreadFormulasWithTranslation(_, _, _, _)
ThreadFormulasWithTranslation(content, formulas, current_formula_index, remaining) ==
    IF remaining = 0 \/ current_formula_index >= Len(formulas)
    THEN [content |-> content, current_formula_index |-> current_formula_index]
    ELSE LET formula == formulas[current_formula_index + 1]
         IN ThreadFormulasWithTranslation(
               ReplaceFirst(content, FORMULA, <<"$">> \o formula.latex_value \o <<"$">>),
               formulas, current_formula_index + 1, remaining - 1)

\* the paragraph loop of convert_paragraphs_with_translation_to_latex from
\* paragraph idx on: one Paragraph per input paragraph, its content the threaded
\* translation
RECURSIVE ConvertWithTranslationFrom(_, _, _, _, _)
ConvertWithTranslationFrom(page_paragraphs, page_formulas, idx, current_formula_index, paragraphs) ==
    IF idx > Len(page_paragraphs) THEN paragraphs
    ELSE LET escaped == EscapeLatex(page_paragraphs[idx].translation)
             num_formula == Count(escaped, FORMULA)
             r == ThreadFormulasWithTranslation(escaped, page_formulas,
                                                current_formula_index, num_formula)
         IN ConvertWithTranslationFrom(
               page_paragraphs, page_formulas, idx + 1, r.current_formula_index,
               Append(paragraphs, [paragraph_id |-> page_paragraphs[idx].paragraph_id,
                                   content |-> r.content]))

ConvertParagraphsWithTranslationToLatex(page_paragraphs, page_formulas) ==
    ConvertWithTranslationFrom(page_paragraphs, page_formulas, 1, 0, <<>>)

\* formula_pattern.findall: the ids of the escaped tags of a text, in text order
FindFormulaIds(text) ==
    LET tags == SelectSeq(text, LAMBDA c : \E n \in FormulaTagIds : c = EscapedFormulaTag(n))
    IN [i \in 1..Len(tags) |-> CHOOSE n \in FormulaTagIds : tags[i] = EscapedFormulaTag(n)]

\* str.replace(r"\begin{array}{}", r"\begin{array}{l}")
RepairArray(value) ==
    [i \in 1..Len(value) |->
        IF value[i] = INVALID_ARRAY THEN "\\begin{array}{l}" ELSE value[i]]

\* the loop `for formula_id in formula_ids` of
\* convert_paragraphs_with_formula_id_to_latex
RECURSIVE ThreadFormulaIds(_, _, _)
ThreadFormulaIds(text, formula_ids, formula_dict) ==
    IF formula_ids = <<>> THEN [text |-> text, formula_dict |-> formula_dict]
    ELSE LET formula_id == Head(formula_ids)
         IN IF formula_id \notin DOMAIN formula_dict
            THEN ThreadFormulaIds(text, Tail(formula_ids), formula_dict)
            ELSE LET repaired == [formula_dict EXCEPT
                                     ![formula_id] = RepairArray(formula_dict[formula_id])]
                 IN ThreadFormulaIds(
                       ReplaceFirst(text, EscapedFormulaTag(formula_id),
                                    <<"$">> \o repaired[formula_id] \o <<"$">>),
                       Tail(formula_ids), repaired)

\* the paragraph loop of convert_paragraphs_with_formula_id_to_latex
RECURSIVE ConvertWithFormulaIdFrom(_, _, _, _)
ConvertWithFormulaIdFrom(page_paragraphs, formula_dict, idx, paragraphs) ==
    IF idx > Len(page_paragraphs) THEN paragraphs
    ELSE LET escaped == EscapeLatex(page_paragraphs[idx].translation)
             r == ThreadFormulaIds(escaped, FindFormulaIds(escaped), formula_dict)
         IN ConvertWithFormulaIdFrom(
               page_paragraphs, r.formula_dict, idx + 1,
               Append(paragraphs, [paragraph_id |-> page_paragraphs[idx].paragraph_id,
                                   content |-> r.text]))

\* convert_paragraphs_with_formula_id_to_latex; formula_dict maps formula_id to
\* latex_value (the formula ids of a page are distinct)
ConvertParagraphsWithFormulaIdToLatex(page_paragraphs, page_formulas) ==
    LET ids == {page_formulas[i].formula_id : i \in 1..Len(page_formulas)}
        formula_dict ==
            [n \in ids |->
                page_formulas[CHOOSE i \in 1..Len(page_formulas) :
                                 page_formulas[i].formula_id = n].latex_value]
    IN ConvertWithFormulaIdFrom(page_paragraphs, formula_dict, 1, <<>>)

\* translated texts with formula-id placeholders
FormulaIdTexts ==
    { <<FormulaTag(1), "_", FormulaTag(0)>>, <<FormulaTag(0), "a", FormulaTag(0)>> }

ThreadIdle ==
    /\ th_pc = "idle"
    /\ th_result = "idle"
    /\ th_page = "idle"
    /\ th_latex = "idle"

\* the recognition result of one page: its paragraphs and its formulas
ThreadInit ==
    /\ th_pc = "result"
    /\ \E cs \in SeqsUpTo(ThreadContents, MaxThreadParagraphs),
          fs \in SeqsUpTo([kind : ThreadKinds, value : ThreadValues], MaxThreadFormulas) :
         th_result = [paragraphs |-> cs, formulas |-> fs]
    /\ th_page = "none"
    /\ th_latex = "none"

\* _analyze_result_to_pages for the page
ThreadAnalyzeResultToPages ==
    /\ th_pc = "result"
    /\ th_page' =
          [page_number |-> 1,
           paragraphs |-> [i \in 1..Len(th_result.paragraphs) |->
                              [paragraph_id |-> i - 1,
                               content |-> th_result.paragraphs[i]]],
           formulas |-> FormulasInPage(th_result.formulas, 1)]
    /\ th_pc' = "page"
    /\ UNCHANGED <<th_result, th_latex>>
    /\ ThreadFrame

\* generate_pdf: paragraphs = convert_paragraphs_to_latex(page.paragraphs, page.formulas)
ThreadGeneratePdf ==
    /\ th_pc = "page"
    /\ LET r == ConvertParagraphsToLatex(th_page.paragraphs, th_page.formulas)
       IN /\ th_page' = [th_page EXCEPT !.paragraphs = r.paragraphs,
                                        !.formulas = r.formulas]
          /\ th_latex' = r.paragraphs
    /\ th_pc' = "done"
    /\ UNCHANGED th_result
    /\ ThreadFrame

\* generate_pdf_with_translation on the page with translations: paragraphs =
\* convert_paragraphs_with_translation_to_latex(page.paragraphs, page.formulas);
\* the translation of a paragraph keeps the tokens of its content
ThreadGeneratePdfWithTranslation ==
    /\ th_pc = "page"
    /\ th_latex' =
          ConvertParagraphsWithTranslationToLatex(
             [i \in 1..Len(th_page.paragraphs) |->
                 [paragraph_id |-> th_page.paragraphs[i].paragraph_id,
                  content |-> th_page.paragraphs[i].content,
                  translation |-> th_page.paragraphs[i].content]],
             th_page.formulas)
    /\ th_pc' = "done_with_translation"
    /\ UNCHANGED <<th_result, th_page>>
    /\ ThreadFrame

\* generate_pdf_with_formula_id on the page with translations: paragraphs =
\* convert_paragraphs_with_formula_id_to_latex(page.paragraphs, page.formulas);
\* the translations carry formula-id placeholders
ThreadGeneratePdfWithFormulaId ==
    /\ th_pc = "page"
    /\ \E texts \in [1..Len(th_page.paragraphs) -> FormulaIdTexts] :
         th_latex' =
            ConvertParagraphsWithFormulaIdToLatex(
               [i \in 1..Len(th_page.paragraphs) |->
                   [paragraph_id |-> th_page.paragraphs[i].paragraph_id,
                    content |-> th_page.paragraphs[i].content,
                    translation |-> texts[i]]],
               th_page.formulas)
    /\ th_pc' = "done_with_formula_id"
    /\ UNCHANGED <<th_result, th_page>>
    /\ ThreadFrame


----------------------------------------------------------------------------
(* SpanIndex, interval containment: _get_textlines_in_paragraph *)

MaxLines == 3
MaxOffset == 4

\* binary_search_start: the first index (0-based) whose offset is >= target,
\* len(lines) when there is none
RECURSIVE BinarySearchStartLoop(_, _, _, _, _)
BinarySearchStartLoop(lines, target, left, right, result) ==
    IF left > right THEN result
    ELSE LET mid == (left + right) \div 2
         IN IF lines[mid + 1].span.offset >= target
            THEN BinarySearchStartLoop(lines, target, left, mid - 1, mid)
            ELSE BinarySearchStartLoop(lines, target, mid + 1, right, result)

BinarySearchStart(lines, target) ==
    BinarySearchStartLoop(lines, target, 0, Len(lines) - 1, Len(lines))

\* mutant: the end search also accepts a line that starts at the end offset
RECURSIVE BinarySearchEndInclusiveLoop(_, _, _, _, _)
BinarySearchEndInclusiveLoop(lines, target, left, right, result) ==
    IF left > right THEN result
    ELSE LET mid == (left + right) \div 2
         IN IF lines[mid + 1].span.offset <= target
            THEN BinarySearchEndInclusiveLoop(lines, target, mid + 1, right, mid)
            ELSE BinarySearchEndInclusiveLoop(lines, target, left, mid - 1, result)

BinarySearchEndInclusive(lines, target) ==
    BinarySearchEndInclusiveLoop(lines, target, 0, Len(lines) - 1, -1)

\* binary_search_end: the last index (0-based) whose offset is < target, -1 when
\* there is none
RECURSIVE BinarySearchEndLoop(_, _, _, _, _)
BinarySearchEndLoop(lines, target, left, right, result) ==
    IF left > right THEN result
    ELSE LET mid == (left + right) \div 2
         IN IF lines[mid + 1].span.offset < target
            THEN BinarySearchEndLoop(lines, target, mid + 1, right, mid)
            ELSE BinarySearchEndLoop(lines, target, left, mid - 1, result)

BinarySearchEnd(lines, target) ==
    BinarySearchEndLoop(lines, target, 0, Len(lines) - 1, -1)

\* Python's lst[start:stop] for 0 <= start and 0 <= stop
PySlice(lst, start, stop) ==
    LET lo == IF start > Len(lst) THEN Len(lst) ELSE start
        hi == IF stop > Len(lst) THEN Len(lst) ELSE stop
    IN IF hi <= lo THEN <<>> ELSE SubSeq(lst, lo + 1, hi)

\* _get_textlines_in_paragraph, binary-search version
GetTextlinesInParagraph(span, lines) ==
    LET start_offset == span.offset
        end_offset == start_offset + span.length
        start_idx == BinarySearchStart(lines, start_offset)
        end_idx == BinarySearchEnd(lines, end_offset)
    IN PySlice(lines, start_idx, end_idx + 1)

\* _get_textlines_in_paragraph, the earlier list comprehension
GetTextlinesInParagraphLinear(span, lines) ==
    SelectSeq(lines, LAMBDA l : /\ span.offset <= l.span.offset
                                /\ l.span.offset < span.offset + span.length)

\* line arrays of a page: line i has text <<"line", i>>; offsets never decrease
SortedLineArrays ==
    {[i \in 1..Len(offs) |-> [text |-> <<"line", i>>, span |-> [offset |-> offs[i]]]] :
        offs \in {o \in SeqsUpTo(0..MaxOffset, MaxLines) :
                     \A i \in 1..(Len(o) - 1) : o[i] <= o[i + 1]}}

LinesIdle ==
    /\ ln_pc = "idle"
    /\ text_lines = "idle"
    /\ paragraph_span = "idle"
    /\ ln_binary = "idle"
    /\ ln_linear = "idle"

LinesInit ==
    /\ ln_pc = "start"
    /\ text_lines \in SortedLineArrays
    /\ paragraph_span \in [offset : 0..(MaxOffset + 1), length : 0..(MaxOffset + 1)]
    /\ ln_binary = <<>>
    /\ ln_linear = <<>>

\* both versions applied to the same paragraph span and line array
LinesGetTextlines ==
    /\ ln_pc = "start"
    /\ ln_binary' = GetTextlinesInParagraph(paragraph_span, text_lines)
    /\ ln_linear' = GetTextlinesInParagraphLinear(paragraph_span, text_lines)
    /\ ln_pc' = "done"
    /\ UNCHANGED <<text_lines, paragraph_span>>
    /\ LinesFrame

----------------------------------------------------------------------------
(* SectionResolver.  An element reference "/kind/N" is the token sequence     *)
(* <<"/", kind, "/", N>>.  A flat array is the sequence of its entities' first *)
(* bounding-region page numbers, 0 for an entity without bounding regions.     *)

MaxElements == 3

Ref(kind, n) == <<"/", kind, "/", n>>

\* an absent (None) element list and an absent flat array
NoneElements == << <<"None">> >>
NoneArray == << -1 >>

IsNoneElements(elements) == Len(elements) = 1 /\ Len(elements[1]) = 1

\* the element references a section may declare
ElementRefs ==
    { Ref("paragraphs", 0), Ref("paragraphs", 1), Ref("paragraphs", 2),
      Ref("figures", 0), Ref("tables", 0) }

SectionElementLists == SeqsUpTo(ElementRefs, MaxElements) \cup {NoneElements}

\* a section declared next to the one under study
SiblingElements == <<Ref("paragraphs", 0), Ref("figures", 0)>>

ParagraphArrays == { <<1>>, <<1, 1>>, <<1, 0>>, <<1, 1, 1>> }
FigureArrays == { NoneArray, <<1>>, <<0>> }
TableArrays == { NoneArray, <<1>> }

\* [element.split("/")[-1] for element in elements if element.startswith("/kind/")],
\* each read with int()
ElementIds(elements, kind) ==
    LET hits == SelectSeq(elements, LAMBDA e : SubSeq(e, 1, 3) = <<"/", kind, "/">>)
    IN [i \in 1..Len(hits) |-> hits[i][Len(hits[i])]]

\* mutant: the referenced entities in ascending id order
ResolveSorted(array, ids, acc) ==
    LET sorted == SetToSortedSeq(Range(ids))
    IN IF \E i \in 1..Len(ids) : ids[i] >= Len(array)
       THEN [raised |-> TRUE, items |-> acc]
       ELSE [raised |-> FALSE,
             items |-> LET kept == SelectSeq(sorted, LAMBDA n : array[n + 1] # 0)
                       IN [i \in 1..Len(kept) |->
                              [id |-> kept[i], page_number |-> array[kept[i] + 1]]]]

\* the loops of get_paragraphs_in_section / get_tables_in_section /
\* get_figures_in_section: array[int(id)] raises IndexError past the end, an
\* entity without bounding regions is skipped, the others are appended
RECURSIVE Resolve(_, _, _)
Resolve(array, ids, acc) ==
    IF ids = <<>> THEN [raised |-> FALSE, items |-> acc]
    ELSE LET n == Head(ids)
         IN IF n >= Len(array) THEN [raised |-> TRUE, items |-> acc]
            ELSE IF array[n + 1] = 0 THEN Resolve(array, Tail(ids), acc)
            ELSE Resolve(array, Tail(ids),
                         Append(acc, [id |-> n, page_number |-> array[n + 1]]))

\* get_paragraphs_in_section: no element list gives ([], [])
GetParagraphsInSection(paragraphs, elements) ==
    IF IsNoneElements(elements) THEN [raised |-> FALSE, items |-> <<>>, ids |-> <<>>]
    ELSE LET ids == ElementIds(elements, "paragraphs")
             r == Resolve(paragraphs, ids, <<>>)
         IN [raised |-> r.raised, items |-> r.items, ids |-> ids]

\* get_tables_in_section / get_figures_in_section: iterating an absent element
\* list raises TypeError
GetEntitiesInSection(array, elements, kind) ==
    IF IsNoneElements(elements) THEN [raised |-> TRUE, items |-> <<>>, ids |-> <<>>]
    ELSE LET ids == ElementIds(elements, kind)
             r == Resolve(array, ids, <<>>)
         IN [raised |-> r.raised, items |-> r.items, ids |-> ids]

NoEntities == [raised |-> FALSE, items |-> <<>>, ids |-> <<>>]

\* _analyze_result_to_sections, sections idx.. of the result; the first exception
\* leaves the call
RECURSIVE AnalyzeResultToSections(_, _, _)
AnalyzeResultToSections(result, idx, sections_list) ==
    IF idx > Len(result.sections) THEN [raised |-> FALSE, sections |-> sections_list]
    ELSE LET elements == result.sections[idx]
             ps == IF result.paragraphs = NoneArray THEN NoEntities
                   ELSE GetParagraphsInSection(result.paragraphs, elements)
             ts == IF result.tables = NoneArray THEN NoEntities
                   ELSE GetEntitiesInSection(result.tables, elements, "tables")
             fs == IF result.figures = NoneArray THEN NoEntities
                   ELSE GetEntitiesInSection(result.figures, elements, "figures")
         IN IF ps.raised \/ ts.raised \/ fs.raised
            THEN [raised |-> TRUE, sections |-> <<>>]
            ELSE AnalyzeResultToSections(result, idx + 1,
                    Append(sections_list,
                           [section_id |-> idx - 1,
                            paragraphs |-> ps.items, paragraph_ids |-> ps.ids,
                            tables |-> ts.items, table_ids |-> ts.ids,
                            figures |-> fs.items, figure_ids |-> fs.ids]))

\* _analyze_figure / _analyze_table: an entity without bounding regions becomes
\* the zero-box entity on page 0
RECURSIVE AnalyzeEntities(_, _, _)
AnalyzeEntities(array, ids, acc) ==
    IF ids = <<>> THEN [raised |-> FALSE, items |-> acc]
    ELSE LET n == Head(ids)
         IN IF array = NoneArray \/ n >= Len(array) THEN [raised |-> TRUE, items |-> acc]
            ELSE AnalyzeEntities(array, Tail(ids),
                                 Append(acc, [id |-> n, page_number |-> array[n + 1]]))

\* AzureOcrRepository._analyze_section; `declared` is the position of the section
\* in self.sections (the Section entity itself carries no id)
AnalyzeSection(result, declared) ==
    LET elements == result.sections[declared]
    IN IF IsNoneElements(elements) \/ elements = <<>>
       THEN [raised |-> FALSE,
             section |-> [declared |-> declared, paragraphs |-> <<>>,
                          tables |-> <<>>, figures |-> <<>>]]
       ELSE LET ps == Resolve(result.paragraphs, ElementIds(elements, "paragraphs"), <<>>)
                fs == AnalyzeEntities(result.figures, ElementIds(elements, "figures"), <<>>)
                ts == AnalyzeEntities(result.tables, ElementIds(elements, "tables"), <<>>)
            IN [raised |-> ps.raised \/ fs.raised \/ ts.raised,
                section |-> [declared |-> declared, paragraphs |-> ps.items,
                             tables |-> ts.items, figures |-> fs.items]]

SectionsIdle ==
    /\ sc_pc = "idle"
    /\ sc_result = "idle"
    /\ sc_document = "idle"
    /\ sc_futures = "idle"
    /\ sc_sections = "idle"

SectionsInit ==
    /\ sc_pc = "start"
    /\ \E els \in SectionElementLists, sibling \in BOOLEAN,
          ps \in ParagraphArrays, fs \in FigureArrays, ts \in TableArrays :
         sc_result = [paragraphs |-> ps, figures |-> fs, tables |-> ts,
                      sections |-> IF sibling THEN <<els, SiblingElements>>
                                   ELSE <<els>>]
    /\ sc_document = "none"
    /\ sc_futures = {}
    /\ sc_sections = <<>>

\* AzureOCRRepository.get_document: the sections of the Document, or the exception
SectionsGetDocument ==
    /\ sc_pc = "start"
    /\ sc_document' = AnalyzeResultToSections(sc_result, 1, <<>>)
    /\ sc_pc' = "submitted"
    /\ sc_futures' = 1..Len(sc_result.sections)
    /\ UNCHANGED <<sc_result, sc_sections>>
    /\ SectionsFrame

\* AzureOcrRepository._get_sections: as_completed yields the future of some
\* section; its Section is appended, its exception is logged and dropped
SectionsFutureCompleted ==
    /\ sc_pc = "submitted"
    /\ \E i \in sc_futures :
         /\ sc_futures' = sc_futures \ {i}
         /\ LET r == AnalyzeSection(sc_result, i)
            IN sc_sections' = IF r.raised THEN sc_sections
                              ELSE Append(sc_sections, r.section)
    /\ UNCHANGED <<sc_pc, sc_result, sc_document>>
    /\ SectionsFrame

\* AzureOcrRepository._get_sections returns
SectionsReturn ==
    /\ sc_pc = "submitted"
    /\ sc_futures = {}
    /\ sc_pc' = "done"
    /\ UNCHANGED <<sc_result, sc_document, sc_futures, sc_sections>>
    /\ SectionsFrame

----------------------------------------------------------------------------
(* Section translation, thread-pool fan-out with as_completed *)

MaxFanSections == 3

\* the sections of a document: section_id is the declaration index
FanSections(n) == [i \in 1..n |-> [section_id |-> i - 1]]

\* translate_section_with_formula_id / translate_section: the provider's answer
\* for a section keeps its section_id
TranslateSection(section) ==
    [section_id |-> section.section_id, input_token_count |-> section.section_id + 1]

FanOutIdle ==
    /\ fo_pc = "idle"
    /\ fo_usecase = "idle"
    /\ fo_sections = "idle"
    /\ fo_provider = "idle"
    /\ fo_futures = "idle"
    /\ section_with_translations = "idle"
    /\ usage_stats = "idle"

\* execute has submitted one future per section; fo_provider says for which
\* sections the translation provider raises
FanOutInit ==
    /\ fo_pc = "as_completed"
    /\ fo_usecase \in {"TranslateSectionFormulaIdUseCase", "TranslateSectionUseCase"}
    /\ \E n \in 0..MaxFanSections :
         /\ fo_sections = FanSections(n)
         /\ fo_provider \in [1..n -> {"ok", "raise"}]
         /\ fo_futures = 1..n
    /\ section_with_translations = <<>>
    /\ usage_stats = [input_token_count |-> 0]

\* one iteration of `for future in as_completed(futures)`, which yields the
\* futures in completion order, any order: future.result() returns the translated
\* section, which is appended, or re-raises the provider's
\* exception, which leaves execute
FanOutFutureCompleted ==
    /\ fo_pc = "as_completed"
    /\ \E i \in fo_futures :
         /\ fo_futures' = fo_futures \ {i}
         /\ IF fo_provider[i] = "raise"
            THEN /\ fo_pc' = "raised"
                 /\ UNCHANGED <<section_with_translations, usage_stats>>
            ELSE LET r == TranslateSection(fo_sections[i])
                 IN /\ section_with_translations' =
                          Append(section_with_translations, [section_id |-> r.section_id])
                    /\ usage_stats' =
                          IF fo_usecase = "TranslateSectionFormulaIdUseCase"
                          THEN [input_token_count |->
                                   usage_stats.input_token_count + r.input_token_count]
                          ELSE usage_stats
                    /\ UNCHANGED fo_pc
    /\ UNCHANGED <<fo_usecase, fo_sections, fo_provider>>
    /\ FanOutFrame

\* every future was consumed: execute returns section_with_translations
FanOutReturn ==
    /\ fo_pc = "as_completed"
    /\ fo_futures = {}
    /\ fo_pc' = "returned"
    /\ UNCHANGED <<fo_usecase, fo_sections, fo_provider, fo_futures,
                   section_with_translations, usage_stats>>
    /\ FanOutFrame

----------------------------------------------------------------------------
(* Section translation, asyncio fan-out: execute_async *)

MaxAsyncSections == 2
LIMIT == 1500

\* the paragraph content lengths of a section
AsyncParagraphLengths ==
    { <<>>, <<700>>, <<900, 700>>, <<1600, 100>>, <<700, 700, 200>> }

\* Paragraph.content_length(): the length of the paragraph's content
ParagraphContentLength(paragraph) == paragraph.length

\* Section.content_length(): the total content length of the section's paragraphs
RECURSIVE SumLengths(_)
SumLengths(paragraphs) ==
    IF paragraphs = <<>> THEN 0
    ELSE ParagraphContentLength(Head(paragraphs)) + SumLengths(Tail(paragraphs))

SectionContentLength(section) == SumLengths(section.paragraphs)

AsyncSections(lens) ==
    [i \in 1..Len(lens) |->
        [section_id |-> i - 1,
         paragraphs |-> [j \in 1..Len(lens[i]) |->
                            [paragraph_id |-> 10 * (i - 1) + j, length |-> lens[i][j]]]]]

\* mutant: the paragraphs left after the loop are not made a chunk
RECURSIVE ChunkParagraphsLosingRest(_, _, _, _)
ChunkParagraphsLosingRest(paragraphs, para_list, current_paragraphs, current_length) ==
    IF paragraphs = <<>> THEN para_list
    ELSE LET paragraph == Head(paragraphs)
             paragraph_len == ParagraphContentLength(paragraph)
         IN IF current_length + paragraph_len > LIMIT /\ current_paragraphs # <<>>
            THEN ChunkParagraphsLosingRest(Tail(paragraphs),
                                           Append(para_list, current_paragraphs),
                                           <<paragraph>>, paragraph_len)
            ELSE ChunkParagraphsLosingRest(Tail(paragraphs), para_list,
                                           Append(current_paragraphs, paragraph),
                                           current_length + paragraph_len)

\* get_result_task: the chunking loop over section.paragraphs
RECURSIVE ChunkParagraphs(_, _, _, _)
ChunkParagraphs(paragraphs, para_list, current_paragraphs, current_length) ==
    IF paragraphs = <<>>
    THEN IF current_paragraphs # <<>> THEN Append(para_list, current_paragraphs)
         ELSE para_list
    ELSE LET paragraph == Head(paragraphs)
             paragraph_len == ParagraphContentLength(paragraph)
         IN IF current_length + paragraph_len > LIMIT /\ current_paragraphs # <<>>
            THEN ChunkParagraphs(Tail(paragraphs), Append(para_list, current_paragraphs),
                                 <<paragraph>>, paragraph_len)
            ELSE ChunkParagraphs(Tail(paragraphs), para_list,
                                 Append(current_paragraphs, paragraph),
                                 current_length + paragraph_len)

\* get_result_task up to its gather: the chunk tasks of the section, none for a
\* section of content length 0
SectionChunks(section) ==
    IF SectionContentLength(section) = 0 THEN <<>>
    ELSE ChunkParagraphs(section.paragraphs, <<>>, <<>>, 0)

\* translate_paragraphs_with_formula_id on one chunk
TranslateChunk(paras) ==
    [j \in 1..Len(paras) |->
        [paragraph_id |-> paras[j].paragraph_id,
         translation |-> <<"translated", paras[j].paragraph_id>>]]

RECURSIVE Concat(_)
Concat(lists) == IF lists = <<>> THEN <<>> ELSE Head(lists) \o Concat(Tail(lists))

\* get_result_task after its gather: para_rets in chunk order
SectionResult(section) ==
    LET chunks == SectionChunks(section)
    IN [section_id |-> section.section_id,
        paragraphs |-> Concat([c \in 1..Len(chunks) |-> TranslateChunk(chunks[c])])]

\* sections.sort(key=lambda x: x.content_length(), reverse=True)
SortByContentLength(sections) ==
    StableSort(sections, [i \in 1..Len(sections) |-> 0 - SectionContentLength(sections[i])])

\* mutant: the results are returned in gather (dispatch) order
KeepOrder(results) == results

\* sections_with_translation.sort(key=lambda x: x.section_id)
SortBySectionId(results) ==
    StableSort(results, [i \in 1..Len(results) |-> results[i].section_id])

AsyncIdle ==
    /\ as_pc = "idle"
    /\ as_sections = "idle"
    /\ as_tasks = "idle"
    /\ sections_with_translation = "idle"

AsyncInit ==
    /\ as_pc = "start"
    /\ \E lens \in SeqsUpTo(AsyncParagraphLengths, MaxAsyncSections) :
         as_sections = AsyncSections(lens)
    /\ as_tasks = <<>>
    /\ sections_with_translation = <<>>

\* execute_async up to its gather: the caller's list is sorted in place and one
\* task per section is created, each with one pending thread per chunk
AsyncDispatch ==
    /\ as_pc = "start"
    /\ as_sections' = SortByContentLength(as_sections)
    /\ as_tasks' = [t \in 1..Len(as_sections) |->
                      [c \in 1..Len(SectionChunks(as_sections'[t])) |-> "pending"]]
    /\ as_pc' = "gather"
    /\ UNCHANGED sections_with_translation
    /\ AsyncFrame

\* a chunk thread of some section task finishes, in any order; the provider
\* answers or raises.  An exception passes through both gathers and leaves
\* execute_async.
AsyncChunkCompleted ==
    /\ as_pc = "gather"
    /\ \E t \in 1..Len(as_tasks) : \E c \in 1..Len(as_tasks[t]) :
         /\ as_tasks[t][c] = "pending"
         /\ \E outcome \in {"ok", "raise"} :
              /\ as_tasks' = [as_tasks EXCEPT ![t][c] = outcome]
              /\ as_pc' = IF outcome = "raise" THEN "raised" ELSE "gather"
    /\ UNCHANGED <<as_sections, sections_with_translation>>
    /\ AsyncFrame

\* every task is done: gather returns the results in task order, which are
\* sorted by section_id and returned
AsyncReturn ==
    /\ as_pc = "gather"
    /\ \A t \in 1..Len(as_tasks) : \A c \in 1..Len(as_tasks[t]) : as_tasks[t][c] = "ok"
    /\ sections_with_translation' =
          SortBySectionId([t \in 1..Len(as_sections) |-> SectionResult(as_sections[t])])
    /\ as_pc' = "returned"
    /\ UNCHANGED <<as_sections, as_tasks>>
    /\ AsyncFrame

----------------------------------------------------------------------------
(* Per-page rendering and merge.  A path is a token sequence; "_" and ".pdf"   *)
(* are tokens of their own, a page number is the token of its decimal digits.  *)

MaxPdfPages == 3

WITH_FORMULA_ID == "GenerateTranslatedPDFWithFormulaIdUseCase"
TRANSLATED == "GenerateTranslatedPdfUseCase"
OCR == "OCRPDFUseCase"

OutputPaths == { <<"out">>, <<"my", "_", "out", ".pdf">> }

\* str.replace(".pdf", "")
RemovePdf(path) == SelectSeq(path, LAMBDA t : t # ".pdf")

\* _process_page: the path of the page file the primary renderer writes
PageOutputPath(usecase, path, page_number) ==
    IF usecase = WITH_FORMULA_ID
    THEN RemovePdf(path) \o <<"_", ToString(page_number), ".pdf">>
    ELSE path \o <<"_", ToString(page_number)>> \o <<".pdf">>

\* GenerateTranslatedPDFWithFormulaIdUseCase.execute: the path of the page file
\* the error generator writes
ErrorPageOutputPath(path, page_number) ==
    RemovePdf(path) \o <<"_", ToString(page_number), "_", "error", ".pdf">>

\* x.split("_")[-1]
RECURSIVE LastSegment(_)
LastSegment(path) ==
    IF \A i \in 1..Len(path) : path[i] # "_" THEN path
    ELSE LastSegment(Tail(path))

\* int(x.split("_")[-1].replace(".pdf", "")): the page number, or ValueError when
\* the text is no numeral
MergeKey(path) ==
    LET text == RemovePdf(LastSegment(path))
        numbers == {n \in 0..(MaxPdfPages + 1) : text = <<ToString(n)>>}
    IN IF numbers = {} THEN [raised |-> TRUE, key |-> 0]
       ELSE [raised |-> FALSE, key |-> CHOOSE n \in numbers : TRUE]

\* mutant: the page files are merged in the order they were finished
MergeUnsorted(pdf_paths) == [raised |-> FALSE, merged |-> pdf_paths]

\* _merge_pdfs: merger.append in sorted(pdf_paths, key=...) order
MergePdfs(pdf_paths) ==
    IF \E i \in 1..Len(pdf_paths) : MergeKey(pdf_paths[i]).raised
    THEN [raised |-> TRUE, merged |-> <<>>]
    ELSE [raised |-> FALSE,
          merged |-> StableSort(pdf_paths,
                                [i \in 1..Len(pdf_paths) |-> MergeKey(pdf_paths[i]).key])]

\* what rendering a page does: "ok" the primary renderer succeeds, "fallback" it
\* raises and the error generator succeeds, "fail" every renderer raises
RenderOutcomes(usecase) ==
    IF usecase = WITH_FORMULA_ID THEN {"ok", "fallback", "fail"} ELSE {"ok", "fail"}

PdfIdle ==
    /\ pd_pc = "idle"
    /\ pd_usecase = "idle"
    /\ pd_pages = "idle"
    /\ output_path = "idle"
    /\ pd_render = "idle"
    /\ pd_futures = "idle"
    /\ page_pdf_paths = "idle"
    /\ pd_merged = "idle"

\* execute has submitted one _process_page future per page
PdfInit ==
    /\ pd_pc = "as_completed"
    /\ pd_usecase \in {WITH_FORMULA_ID, TRANSLATED, OCR}
    /\ output_path \in OutputPaths
    /\ \E n \in 0..MaxPdfPages :
         /\ pd_pages = [i \in 1..n |-> [page_number |-> i]]
         /\ pd_render \in [1..n -> RenderOutcomes(pd_usecase)]
         /\ pd_futures = 1..n
    /\ page_pdf_paths = <<>>
    /\ pd_merged = <<>>

\* one iteration of `for future in as_completed(future_to_page)`
PdfFutureCompleted ==
    /\ pd_pc = "as_completed"
    /\ \E i \in pd_futures :
         LET page_number == pd_pages[i].page_number
         IN /\ pd_futures' = pd_futures \ {i}
            /\ IF pd_render[i] = "ok"
               THEN /\ page_pdf_paths' =
                         Append(page_pdf_paths,
                                PageOutputPath(pd_usecase, output_path, page_number))
                    /\ UNCHANGED pd_pc
               ELSE IF pd_usecase # WITH_FORMULA_ID
               THEN UNCHANGED <<page_pdf_paths, pd_pc>>
               ELSE IF pd_render[i] = "fallback"
               THEN /\ page_pdf_paths' =
                         Append(page_pdf_paths, ErrorPageOutputPath(output_path, page_number))
                    /\ UNCHANGED pd_pc
               ELSE /\ pd_pc' = "raised"
                    /\ UNCHANGED page_pdf_paths
    /\ UNCHANGED <<pd_usecase, pd_pages, output_path, pd_render, pd_merged>>
    /\ PdfFrame

\* after the pool: no page file raises, otherwise _merge_pdfs merges the page
\* files and execute returns
PdfMerge ==
    /\ pd_pc = "as_completed"
    /\ pd_futures = {}
    /\ LET r == MergePdfs(page_pdf_paths)
       IN IF page_pdf_paths = <<>> \/ r.raised
          THEN pd_pc' = "raised" /\ UNCHANGED pd_merged
          ELSE pd_pc' = "returned" /\ pd_merged' = r.merged
    /\ UNCHANGED <<pd_usecase, pd_pages, output_path, pd_render, pd_futures,
                   page_pdf_paths>>
    /\ PdfFrame

----------------------------------------------------------------------------
(* Batch translation of paragraphs.  The provider's response is a token        *)
(* sequence: the marker "### Paragraph", a label, the marker "###", the        *)
(* translated text and the separator "\n\n" for each block.                    *)

MaxBatchParagraphs == 2
MaxBlocks == 3

\* the paragraph ids of a batch and the labels the provider may write
BatchIds == 0..MaxBatchParagraphs

\* the batches: paragraphs with distinct ids, in any order
Batches ==
    {ids \in SeqsUpTo(BatchIds, MaxBatchParagraphs) :
        \A i \in 1..Len(ids) : \A j \in 1..Len(ids) : i # j => ids[i] # ids[j]}

\* the text the provider writes under the label n
Translated(n) == "translation of " \o ToString(n)

\* a response of labelled blocks
RECURSIVE Response(_)
Response(labels) ==
    IF labels = <<>> THEN <<>>
    ELSE <<"### Paragraph", ToString(Head(labels)), "###", Translated(Head(labels)), "\n\n">>
         \o Response(Tail(labels))

\* str.split(sep): the pieces between the occurrences of sep
RECURSIVE Split(_, _, _)
Split(s, sep, piece) ==
    IF s = <<>> THEN <<piece>>
    ELSE IF Head(s) = sep THEN <<piece>> \o Split(Tail(s), sep, <<>>)
    ELSE Split(Tail(s), sep, Append(piece, Head(s)))

\* str.strip()
RECURSIVE Strip(_)
Strip(s) ==
    IF s # <<>> /\ Head(s) = "\n\n" THEN Strip(Tail(s))
    ELSE IF s # <<>> /\ s[Len(s)] = "\n\n" THEN Strip(SubSeq(s, 1, Len(s) - 1))
    ELSE s

\* parse_batch_translate_response: for each part after a "### Paragraph" marker,
\* the stripped text between the next "###" and the one after it; the label is
\* not read
ParseBatchTranslateResponse(response) ==
    LET parts == Tail(Split(response, "### Paragraph", <<>>))
    IN [k \in 1..Len(parts) |-> Strip(Split(parts[k], "###", <<>>)[2])]

\* the loop `for translation, paragraph in zip(translations, paragraphs)` of
\* translate_paragraphs and translate_paragraphs_with_formula_id
Zip(translations, paragraphs) ==
    LET n == IF Len(translations) < Len(paragraphs) THEN Len(translations)
             ELSE Len(paragraphs)
    IN [k \in 1..n |->
           [paragraph_id |-> paragraphs[k].paragraph_id,
            content |-> paragraphs[k].content,
            translation |-> translations[k]]]

BatchIdle ==
    /\ tp_pc = "idle"
    /\ tp_method = "idle"
    /\ tp_paragraphs = "idle"
    /\ tp_response = "idle"
    /\ paragraphs_with_translation = "idle"

BatchInit ==
    /\ tp_pc = "request"
    /\ tp_method \in {"translate_paragraphs", "translate_paragraphs_with_formula_id"}
    /\ \E ids \in Batches :
         tp_paragraphs = [k \in 1..Len(ids) |->
                             [paragraph_id |-> ids[k],
                              content |-> "content of " \o ToString(ids[k])]]
    /\ tp_response = <<>>
    /\ paragraphs_with_translation = <<>>

\* _request_translate: the provider answers with labelled blocks, in any order
\* and number
BatchRequestTranslate ==
    /\ tp_pc = "request"
    /\ \E labels \in SeqsUpTo(BatchIds, MaxBlocks) : tp_response' = Response(labels)
    /\ tp_pc' = "response"
    /\ UNCHANGED <<tp_method, tp_paragraphs, paragraphs_with_translation>>
    /\ BatchFrame

\* the rest of translate_paragraphs / translate_paragraphs_with_formula_id
BatchTranslateParagraphs ==
    /\ tp_pc = "response"
    /\ paragraphs_with_translation' =
          Zip(ParseBatchTranslateResponse(tp_response), tp_paragraphs)
    /\ tp_pc' = "done"
    /\ UNCHANGED <<tp_method, tp_paragraphs, tp_response>>
    /\ BatchFrame

----------------------------------------------------------------------------
(* AzureOCRRepository.get_document: page assembly, then section assembly.      *)
(* result.pages is the sequence of its page numbers, or NoneArray; a flat array *)
(* is as in the section resolver.                                               *)

MaxDocPages == 2
MaxDocEntities == 2

DocPages == {NoneArray} \cup {[i \in 1..n |-> i] : n \in 0..MaxDocPages}
DocParagraphs == {NoneArray} \cup SeqsUpTo(0..MaxDocPages, MaxDocEntities)
DocFigures == {NoneArray, <<>>, <<0>>, <<1>>}
DocTables == {NoneArray, <<>>, <<1>>}
DocSections ==
    { <<>>, << <<>> >>, << <<Ref("paragraphs", 0), Ref("figures", 0)>> >>, <<NoneElements>> }

\* mutant: an entity is put at the head of its page's bucket
RECURSIVE EntitiesInPagePrepending(_, _, _, _)
EntitiesInPagePrepending(array, num_pages, idx, in_page) ==
    IF idx > Len(array) THEN [raised |-> FALSE, in_page |-> in_page]
    ELSE LET page_number == array[idx]
         IN IF page_number = 0 THEN EntitiesInPagePrepending(array, num_pages, idx + 1, in_page)
            ELSE IF page_number > num_pages THEN [raised |-> TRUE, in_page |-> in_page]
            ELSE EntitiesInPagePrepending(array, num_pages, idx + 1,
                    [in_page EXCEPT ![page_number] = <<idx - 1>> \o @])

\* get_paragraphs_in_page / get_figures_in_page / get_tables_in_page from entity
\* idx on: an entity without bounding regions is skipped; pages[page_number - 1]
\* raises IndexError past the last page; the others go to the bucket of their
\* first bounding region's page
RECURSIVE EntitiesInPage(_, _, _, _)
EntitiesInPage(array, num_pages, idx, in_page) ==
    IF idx > Len(array) THEN [raised |-> FALSE, in_page |-> in_page]
    ELSE LET page_number == array[idx]
         IN IF page_number = 0 THEN EntitiesInPage(array, num_pages, idx + 1, in_page)
            ELSE IF page_number > num_pages THEN [raised |-> TRUE, in_page |-> in_page]
            ELSE EntitiesInPage(array, num_pages, idx + 1,
                    [in_page EXCEPT ![page_number] = Append(@, idx - 1)])

\* {i: [] for i in range(1, num_pages + 1)}, then the entities when the flat
\* array is there
InPage(array, num_pages) ==
    IF array = NoneArray THEN [raised |-> FALSE, in_page |-> [i \in 1..num_pages |-> <<>>]]
    ELSE EntitiesInPage(array, num_pages, 1, [i \in 1..num_pages |-> <<>>])

\* _analyze_result_to_pages: len(pages) raises TypeError when result.pages is
\* None; otherwise one Page per page of the result
AnalyzeResultToPages(result) ==
    IF result.pages = NoneArray THEN [raised |-> TRUE, pages |-> <<>>]
    ELSE LET num_pages == Len(result.pages)
             ps == InPage(result.paragraphs, num_pages)
             ts == InPage(result.tables, num_pages)
             fs == InPage(result.figures, num_pages)
         IN IF ps.raised \/ ts.raised \/ fs.raised THEN [raised |-> TRUE, pages |-> <<>>]
            ELSE [raised |-> FALSE,
                  pages |-> [page_number \in 1..num_pages |->
                                [page_number |-> page_number,
                                 paragraphs |-> ps.in_page[page_number],
                                 tables |-> ts.in_page[page_number],
                                 figures |-> fs.in_page[page_number]]]]

\* get_document: Document(pages=..., sections=...), or the first exception
GetDocument(result) ==
    LET ps == AnalyzeResultToPages(result)
        ss == AnalyzeResultToSections(result, 1, <<>>)
    IN IF ps.raised THEN [raised |-> TRUE, pages |-> <<>>, sections |-> <<>>]
       ELSE IF ss.raised THEN [raised |-> TRUE, pages |-> <<>>, sections |-> <<>>]
       ELSE [raised |-> FALSE, pages |-> ps.pages, sections |-> ss.sections]

DocumentIdle ==
    /\ doc_pc = "idle"
    /\ doc_result = "idle"
    /\ doc_document = "idle"

DocumentInit ==
    /\ doc_pc = "start"
    /\ \E pgs \in DocPages, ps \in DocParagraphs, fs \in DocFigures, ts \in DocTables,
          ss \in DocSections :
         doc_result = [pages |-> pgs, paragraphs |-> ps, figures |-> fs, tables |-> ts,
                       sections |-> ss]
    /\ doc_document = "none"

DocumentGetDocument ==
    /\ doc_pc = "start"
    /\ doc_document' = GetDocument(doc_result)
    /\ doc_pc' = "done"
    /\ UNCHANGED doc_result
    /\ DocumentFrame

----------------------------------------------------------------------------
(* DevAzureOcrRepository.get_sections and its accessors.  A page of the result  *)
(* is the sequence of its formulas and its page_number is its position; the     *)
(* results carry paragraphs and sections, no tables and no figures.             *)

MaxDevPages == 2
MaxDevParagraphs == 2

DevFormula(kind, value) == [kind |-> kind, value |-> value]

DevPageFormulas ==
    { <<>>, <<DevFormula("inline", "x")>>,
      <<DevFormula("display", "y"), DevFormula("inline", "x")>> }

DevPages == SeqsUpTo(DevPageFormulas, MaxDevPages)

\* paragraph i of the result: its content names its position in the array
DevParagraphs(num_pages) ==
    UNION { { [i \in 1..k |-> [content |-> <<ToString(i - 1), FORMULA>>,
                               role |-> r[i], page_number |-> p[i]]] :
                r \in [1..k -> {"None", "title"}], p \in [1..k -> 1..num_pages] } :
            k \in 0..MaxDevParagraphs }

DevSectionElements ==
    { <<>>, <<Ref("paragraphs", 0)>>, <<Ref("paragraphs", 1)>>,
      <<Ref("paragraphs", 0), Ref("paragraphs", 1)>>,
      <<Ref("paragraphs", 1), Ref("paragraphs", 0)>> }

\* all_formulas: (page.page_number, formula) for every formula of every page
RECURSIVE AllFormulas(_, _)
AllFormulas(doc_pages, page_number) ==
    IF page_number > Len(doc_pages) THEN <<>>
    ELSE [i \in 1..Len(doc_pages[page_number]) |->
             [page_number |-> page_number, formula |-> doc_pages[page_number][i]]]
         \o AllFormulas(doc_pages, page_number + 1)

\* self.display_formulas: one DisplayFormula per entry of all_formulas
DisplayFormulas(doc_pages) ==
    LET all_formulas == AllFormulas(doc_pages, 1)
    IN [i \in 1..Len(all_formulas) |->
           [latex_value |-> all_formulas[i].formula.value,
            page_number |-> all_formulas[i].page_number]]

ParagraphsWithoutRole(paragraphs) == SelectSeq(paragraphs, LAMBDA p : p.role = "None")

\* _analyze_page_paragraphs from paragraph i on
RECURSIVE AnalyzePageParagraphs(_, _, _, _)
AnalyzePageParagraphs(inline_formulas, paragraphs, i, current_formula_index) ==
    IF i > Len(paragraphs) THEN <<>>
    ELSE LET text == paragraphs[i].paragraph.content
             num_formulas == Count(text, FORMULA)
             line_formulas == PySlice(inline_formulas, current_formula_index,
                                      current_formula_index + num_formulas)
         IN << [paragraph_index |-> paragraphs[i].index,
                text |-> text,
                inline_formulas |-> [j \in 1..Len(line_formulas) |-> line_formulas[j].value],
                page_number |-> paragraphs[i].paragraph.page_number] >>
            \o AnalyzePageParagraphs(inline_formulas, paragraphs, i + 1,
                                     current_formula_index + num_formulas)

\* _convert_text_paragraphs_to_latex from page page_number on: index is the
\* position in the list it is handed
RECURSIVE ConvertTextParagraphsToLatex(_, _, _)
ConvertTextParagraphsToLatex(text_paragraphs, doc_pages, page_number) ==
    IF page_number > Len(doc_pages) THEN <<>>
    ELSE LET document_paragraphs_with_index ==
                 [i \in 1..Len(text_paragraphs) |->
                     [paragraph |-> text_paragraphs[i], index |-> i - 1]]
             page_paragraphs_with_index ==
                 SelectSeq(document_paragraphs_with_index,
                           LAMBDA p : p.paragraph.page_number = page_number)
             inline_formulas ==
                 SelectSeq(doc_pages[page_number], LAMBDA f : f.kind = "inline")
         IN AnalyzePageParagraphs(inline_formulas, page_paragraphs_with_index, 1, 0)
            \o ConvertTextParagraphsToLatex(text_paragraphs, doc_pages, page_number + 1)

\* _analyze_section: the paragraphs of the list whose index is referenced
DevAnalyzeSection(elements, text_paragraphs_with_latex_list) ==
    IF elements = <<>> THEN [paragraphs |-> <<>>]
    ELSE LET paragraph_ids == ElementIds(elements, "paragraphs")
             hits == SelectSeq(text_paragraphs_with_latex_list,
                               LAMBDA tp : tp.paragraph_index \in Range(paragraph_ids))
         IN [paragraphs |-> [i \in 1..Len(hits) |->
                                [text |-> hits[i].text,
                                 inline_formulas |-> hits[i].inline_formulas,
                                 page_number |-> hits[i].page_number]]]

\* get_sections: pages[0] raises IndexError on a result without pages
DevGetSectionsOf(result) ==
    IF result.pages = <<>>
    THEN [raised |-> TRUE, display_formulas |-> DisplayFormulas(result.pages),
          sections |-> <<>>]
    ELSE LET text_paragraphs_with_latex_list ==
                 ConvertTextParagraphsToLatex(ParagraphsWithoutRole(result.paragraphs),
                                              result.pages, 1)
         IN [raised |-> FALSE, display_formulas |-> DisplayFormulas(result.pages),
             sections |-> [i \in 1..Len(result.sections) |->
                              DevAnalyzeSection(result.sections[i],
                                                text_paragraphs_with_latex_list)]]

DevIdle ==
    /\ dev_pc = "idle"
    /\ dev_result = "idle"
    /\ dev_sections = "idle"
    /\ display_formulas = "idle"
    /\ dev_returned = "idle"

DevInit ==
    /\ dev_pc = "start"
    /\ \E pgs \in DevPages :
         \E ps \in DevParagraphs(Len(pgs)), el \in DevSectionElements :
            dev_result = [pages |-> pgs, paragraphs |-> ps, sections |-> <<el>>]
    /\ dev_sections = "none"
    /\ display_formulas = "none"
    /\ dev_returned = "none"

DevGetSections ==
    /\ dev_pc = "start"
    /\ LET r == DevGetSectionsOf(dev_result)
       IN /\ display_formulas' = r.display_formulas
          /\ dev_sections' = [raised |-> r.raised, sections |-> r.sections]
          /\ dev_pc' = IF r.raised THEN "raised" ELSE "analyzed"
    /\ UNCHANGED <<dev_result, dev_returned>>
    /\ DevFrame

DevGetDisplayFormulas ==
    /\ dev_pc = "analyzed"
    /\ dev_returned' = display_formulas
    /\ dev_pc' = "done"
    /\ UNCHANGED <<dev_result, dev_sections, display_formulas>>
    /\ DevFrame

----------------------------------------------------------------------------
(* AzureOcrRepository: _preprocess_pages, _analyze_page line by line, and       *)
(* get_display_formulas.  A page is [formulas, lines]; a formula's value names  *)
(* its position on the page, and a line is its content.  The pool's workers     *)
(* share nothing but the cache, so the pages are analysed one at a time in any  *)
(* order.                                                                       *)

MaxPageFormulas == 3
MaxPageLines == 2

OcrLineContents == { <<"a">>, <<FORMULA>>, <<FORMULA, "a", FORMULA>> }

OcrFormulas ==
    { [i \in 1..Len(kinds) |-> [kind |-> kinds[i], value |-> ToString(i)]] :
        kinds \in SeqsUpTo({"inline", "display"}, MaxPageFormulas) }

OcrPage == [formulas : OcrFormulas, lines : SeqsUpTo(OcrLineContents, MaxPageLines)]

\* a further page of the document
OcrOtherPages ==
    { [formulas |-> <<>>, lines |-> <<>>],
      [formulas |-> <<[kind |-> "display", value |-> "1"], [kind |-> "inline", value |-> "2"]>>,
       lines |-> << <<FORMULA>> >>] }

OcrPages == {<<p>> : p \in OcrPage} \cup {<<p, q>> : p \in OcrPage, q \in OcrOtherPages}

InlineFormulas(formulas) == SelectSeq(formulas, LAMBDA f : f.kind = "inline")

DisplayFormulasOfPage(formulas) == SelectSeq(formulas, LAMBDA f : f.kind = "display")

\* mutant: every line is served from the head of the list
LineFormulasFromStart(inline_formulas, idx, num_formula) ==
    PySlice(inline_formulas, 0, num_formula)

\* inline_formulas[current_inline_formula_idx : current_inline_formula_idx + num_formula]
LineFormulas(inline_formulas, idx, num_formula) ==
    PySlice(inline_formulas, idx, idx + num_formula)

\* get_display_formulas from page page_number of self.pages on
RECURSIVE GetDisplayFormulas(_, _)
GetDisplayFormulas(doc_pages, page_number) ==
    IF page_number > Len(doc_pages) THEN <<>>
    ELSE LET shown == DisplayFormulasOfPage(doc_pages[page_number].formulas)
         IN [i \in 1..Len(shown) |->
                [latex_value |-> shown[i].value, page_number |-> page_number]]
            \o GetDisplayFormulas(doc_pages, page_number + 1)

OcrIdle ==
    /\ oc_pc = "idle"
    /\ self_pages = "idle"
    /\ oc_page = "idle"
    /\ current_inline_formula_idx = "idle"
    /\ page_text_lines = "idle"
    /\ page_cache = "idle"
    /\ oc_returned = "idle"

OcrInit ==
    /\ oc_pc = "preprocess"
    /\ self_pages \in OcrPages
    /\ oc_page = 0
    /\ current_inline_formula_idx = 0
    /\ page_text_lines = <<>>
    /\ page_cache = <<>>
    /\ oc_returned = <<>>

\* a worker enters _analyze_page for a page not analysed yet
OcrAnalyzePage ==
    /\ oc_pc = "preprocess"
    /\ \E p \in 1..Len(self_pages) :
          /\ p \notin {page_cache[i].page_number : i \in 1..Len(page_cache)}
          /\ oc_page' = p
    /\ current_inline_formula_idx' = 0
    /\ page_text_lines' = <<>>
    /\ oc_pc' = "lines"
    /\ UNCHANGED <<self_pages, page_cache, oc_returned>>
    /\ OcrFrame

\* one pass of the loop over the page's lines
OcrAnalyzeLine ==
    /\ oc_pc = "lines"
    /\ Len(page_text_lines) < Len(self_pages[oc_page].lines)
    /\ LET line == self_pages[oc_page].lines[Len(page_text_lines) + 1]
           inline_formulas == InlineFormulas(self_pages[oc_page].formulas)
           num_formula == Count(line, FORMULA)
           line_formulas == LineFormulas(inline_formulas, current_inline_formula_idx,
                                         num_formula)
       IN /\ current_inline_formula_idx' = current_inline_formula_idx + num_formula
          /\ page_text_lines' = Append(page_text_lines,
                                  [text |-> line, inline_formulas |-> line_formulas])
    /\ UNCHANGED <<oc_pc, self_pages, oc_page, page_cache, oc_returned>>
    /\ OcrFrame

\* _analyze_page returns and _preprocess_pages stores the page's entry
OcrCachePage ==
    /\ oc_pc = "lines"
    /\ Len(page_text_lines) = Len(self_pages[oc_page].lines)
    /\ page_cache' = Append(page_cache,
            [page_number |-> oc_page,
             text_lines |-> page_text_lines,
             display_formulas |-> DisplayFormulasOfPage(self_pages[oc_page].formulas),
             inline_formulas |-> InlineFormulas(self_pages[oc_page].formulas)])
    /\ oc_pc' = "preprocess"
    /\ UNCHANGED <<self_pages, oc_page, current_inline_formula_idx, page_text_lines, oc_returned>>
    /\ OcrFrame

OcrGetDisplayFormulas ==
    /\ oc_pc = "preprocess"
    /\ Len(page_cache) = Len(self_pages)
    /\ oc_returned' = GetDisplayFormulas(self_pages, 1)
    /\ oc_pc' = "done"
    /\ UNCHANGED <<self_pages, oc_page, current_inline_formula_idx, page_text_lines, page_cache>>
    /\ OcrFrame

----------------------------------------------------------------------------
(* _get_line_style: the binary-search version (ocr_module/adapters/infra/azure) *)
(* and the linear-scan version (adapters/infra/azure).  An attribute a style    *)
(* does not set is "", the None of the result is "None".                        *)

MaxStyleSpans == 2

StyleSpans ==
    { [offset |-> 0, length |-> 1], [offset |-> 0, length |-> 3],
      [offset |-> 1, length |-> 1], [offset |-> 2, length |-> 2] }

StyleSpanLists == SeqsUpTo(StyleSpans, MaxStyleSpans)

\* the attribute values a style may carry
StyleValues ==
    { [similar_font_family |-> "Arial", color |-> "#000000",
       font_weight |-> "bold", background_color |-> "#ffffff"],
      [similar_font_family |-> "Times", color |-> "", font_weight |-> "",
       background_color |-> ""],
      [similar_font_family |-> "", color |-> "#ff0000", font_weight |-> "normal",
       background_color |-> ""] }

DocumentStyle(spans, values) ==
    [spans |-> spans, similar_font_family |-> values.similar_font_family,
     color |-> values.color, font_weight |-> values.font_weight,
     background_color |-> values.background_color]

\* the style collections of a result: one style, or a style after another
StyleCollections ==
    { <<DocumentStyle(sp, v)>> : sp \in StyleSpanLists, v \in StyleValues }
    \cup { <<DocumentStyle(<<[offset |-> 0, length |-> 3]>>, w), DocumentStyle(sp, v)>> :
             sp \in StyleSpanLists, v \in StyleValues, w \in StyleValues }

NoStyle ==
    [font |-> "None", color |-> "None", font_weight |-> "None",
     background_color |-> "None"]

\* binary_search_span: the index found, or -1
RECURSIVE BinarySearchSpan(_, _, _, _)
BinarySearchSpan(spans, target_offset, left, right) ==
    IF left > right THEN -1
    ELSE LET mid == (left + right) \div 2
             span == spans[mid + 1]
         IN IF span.offset <= target_offset /\ target_offset < span.offset + span.length
            THEN mid
            ELSE IF target_offset < span.offset
            THEN BinarySearchSpan(spans, target_offset, left, mid - 1)
            ELSE BinarySearchSpan(spans, target_offset, mid + 1, right)

\* the four assignments made for a style with a span holding the offset
ApplyStyle(style_attributes, style) ==
    [font |-> IF style.similar_font_family # "" THEN style.similar_font_family
              ELSE style_attributes.font,
     color |-> IF style.color # "" THEN style.color ELSE style_attributes.color,
     font_weight |-> IF style.font_weight # "" THEN style.font_weight
                     ELSE style_attributes.font_weight,
     background_color |-> IF style.background_color # "" THEN style.background_color
                          ELSE style_attributes.background_color]

\* _get_line_style, binary-search version, from style i on
RECURSIVE GetLineStyle(_, _, _, _)
GetLineStyle(line_offset, styles, i, style_attributes) ==
    IF i > Len(styles) THEN style_attributes
    ELSE LET idx == BinarySearchSpan(styles[i].spans, line_offset, 0,
                                     Len(styles[i].spans) - 1)
         IN GetLineStyle(line_offset, styles, i + 1,
                         IF idx # -1 THEN ApplyStyle(style_attributes, styles[i])
                         ELSE style_attributes)

\* _get_line_style, linear-scan version, from style i on
RECURSIVE GetLineStyleLinear(_, _, _, _)
GetLineStyleLinear(line_offset, styles, i, style_attributes) ==
    IF i > Len(styles) THEN style_attributes
    ELSE LET hit == \E k \in 1..Len(styles[i].spans) :
                       /\ styles[i].spans[k].offset <= line_offset
                       /\ line_offset < styles[i].spans[k].offset + styles[i].spans[k].length
         IN GetLineStyleLinear(line_offset, styles, i + 1,
                               IF hit THEN ApplyStyle(style_attributes, styles[i])
                               ELSE style_attributes)

StyleIdle ==
    /\ st_pc = "idle"
    /\ line_span = "idle"
    /\ st_styles = "idle"
    /\ st_binary = "idle"
    /\ st_linear = "idle"

StyleInit ==
    /\ st_pc = "start"
    /\ line_span \in {s \in StyleSpans : s.length = 1}
    /\ st_styles \in StyleCollections \cup {<<>>}
    /\ st_binary = NoStyle
    /\ st_linear = NoStyle

\* both versions applied to the same line span and style collection
StyleGetLineStyle ==
    /\ st_pc = "start"
    /\ st_binary' = GetLineStyle(line_span.offset, st_styles, 1, NoStyle)
    /\ st_linear' = GetLineStyleLinear(line_span.offset, st_styles, 1, NoStyle)
    /\ st_pc' = "done"
    /\ UNCHANGED <<line_span, st_styles>>
    /\ StyleFrame

----------------------------------------------------------------------------
(* ChangeFormulaIdUseCase: ':formula:' becomes <<formula_i>>, page by page.     *)
(* The pages' paragraphs are changed in place; the sections hold their own      *)
(* paragraphs, matched by paragraph_id.                                         *)

MaxChangePages == 2
MaxChangeParagraphs == 2

ChangeContents == { <<"a">>, <<FORMULA>>, <<FORMULA, "a", FORMULA>> }

\* the loop `for i in range(num_formula)` on one paragraph content
RECURSIVE ChangeFormulaTags(_, _, _)
ChangeFormulaTags(content, current_formula_id, remaining) ==
    IF remaining = 0 THEN content
    ELSE ChangeFormulaTags(
            ReplaceFirst(content, FORMULA, <<ChangeFormulaTag(current_formula_id)>>),
            current_formula_id + 1, remaining - 1)

\* mutant: the id starts again at 0 in every paragraph
RECURSIVE ChangeFormulaTagInPagePerParagraph(_, _, _)
ChangeFormulaTagInPagePerParagraph(paragraphs, idx, current_formula_id) ==
    IF idx > Len(paragraphs) THEN paragraphs
    ELSE LET num_formula == Count(paragraphs[idx].content, FORMULA)
         IN ChangeFormulaTagInPagePerParagraph(
               [paragraphs EXCEPT ![idx].content = ChangeFormulaTags(@, 0, num_formula)],
               idx + 1, 0)

\* change_formula_tag_in_page from paragraph idx on
RECURSIVE ChangeFormulaTagInPage(_, _, _)
ChangeFormulaTagInPage(paragraphs, idx, current_formula_id) ==
    IF idx > Len(paragraphs) THEN paragraphs
    ELSE LET num_formula == Count(paragraphs[idx].content, FORMULA)
         IN ChangeFormulaTagInPage(
               [paragraphs EXCEPT
                   ![idx].content = ChangeFormulaTags(@, current_formula_id, num_formula)],
               idx + 1, current_formula_id + num_formula)

\* processed_paragraphs: paragraph_id -> paragraph, a later page's paragraph
\* replacing an earlier one of the same id
ProcessedParagraphs(processed_pages) ==
    LET all == Concat(processed_pages)
        ids == {all[i].paragraph_id : i \in 1..Len(all)}
    IN [id \in ids |->
          all[CHOOSE i \in 1..Len(all) :
                 /\ all[i].paragraph_id = id
                 /\ \A j \in 1..Len(all) : all[j].paragraph_id = id => j <= i]]

\* execute: the pages after the call and the sections returned
ChangeFormulaIdExecute(change_pages, sections) ==
    LET processed_pages ==
            [p \in 1..Len(change_pages) |-> ChangeFormulaTagInPage(change_pages[p], 1, 0)]
        processed_paragraphs == ProcessedParagraphs(processed_pages)
    IN [pages |-> processed_pages,
        sections |->
            [s \in 1..Len(sections) |->
                [i \in 1..Len(sections[s]) |->
                    IF sections[s][i].paragraph_id \in DOMAIN processed_paragraphs
                    THEN [sections[s][i] EXCEPT
                             !.content = processed_paragraphs[sections[s][i].paragraph_id].content]
                    ELSE sections[s][i]]]]

\* the pages of a document: paragraph ids count through the pages
RECURSIVE ChangePagesOf(_, _)
ChangePagesOf(contents, next_id) ==
    IF contents = <<>> THEN <<>>
    ELSE << [i \in 1..Len(Head(contents)) |->
                [paragraph_id |-> next_id + i - 1, content |-> Head(contents)[i]]] >>
         \o ChangePagesOf(Tail(contents), next_id + Len(Head(contents)))

ChangeIdle ==
    /\ cf_pc = "idle"
    /\ cf_input = "idle"
    /\ cf_pages = "idle"
    /\ cf_sections = "idle"

\* one section holding every paragraph of the document
ChangeInit ==
    /\ cf_pc = "start"
    /\ \E contents \in SeqsUpTo(SeqsUpTo(ChangeContents, MaxChangeParagraphs), MaxChangePages) :
          /\ cf_input = ChangePagesOf(contents, 0)
          /\ cf_pages = ChangePagesOf(contents, 0)
          /\ cf_sections = << Concat(ChangePagesOf(contents, 0)) >>

ChangeExecute ==
    /\ cf_pc = "start"
    /\ LET r == ChangeFormulaIdExecute(cf_pages, cf_sections)
       IN /\ cf_pages' = r.pages
          /\ cf_sections' = r.sections
    /\ cf_pc' = "done"
    /\ UNCHANGED cf_input
    /\ ChangeFrame

----------------------------------------------------------------------------
(* The formula-id pipeline on one page: ChangeFormulaIdUseCase writes the tags, *)
(* the translation keeps them, generate_pdf_with_formula_id threads them.       *)

\* ChangeFormulaIdUseCase.change_formula_tag_in_page on the page
ThreadChangeFormulaId ==
    /\ th_pc = "page"
    /\ th_page' = [th_page EXCEPT !.paragraphs = ChangeFormulaTagInPage(@, 1, 0)]
    /\ th_pc' = "tagged"
    /\ UNCHANGED <<th_result, th_latex>>
    /\ ThreadFrame

\* generate_pdf_with_formula_id on the tagged page; every translation is the
\* tagged content, its tags unchanged
ThreadGeneratePdfOfTagged ==
    /\ th_pc = "tagged"
    /\ th_latex' =
          ConvertParagraphsWithFormulaIdToLatex(
             [i \in 1..Len(th_page.paragraphs) |->
                 [paragraph_id |-> th_page.paragraphs[i].paragraph_id,
                  content |-> th_page.paragraphs[i].content,
                  translation |-> th_page.paragraphs[i].content]],
             th_page.formulas)
    /\ th_pc' = "done_of_tagged"
    /\ UNCHANGED <<th_result, th_page>>
    /\ ThreadFrame

----------------------------------------------------------------------------
(* _process_page of the three rendering use cases, called twice on the same     *)
(* page object.  rn_page is the caller's page; a paragraph of a page with       *)
(* translation carries content and translation, a paragraph of an OCR page its  *)
(* content (its translation field stands unused).                               *)

\* the translations of a page's paragraphs: the content itself, or for the
\* formula-id path a text with formula-id placeholders
RenderTranslations(usecase, contents) ==
    IF usecase = WITH_FORMULA_ID
    THEN { [i \in 1..Len(contents) |-> text] : text \in FormulaIdTexts }
    ELSE { contents }

\* _process_page: the caller's page after the call and the paragraphs threaded.
\* OCRPDFUseCase and GenerateTranslatedPDFWithFormulaIdUseCase render a
\* copy.deepcopy of the page; GenerateTranslatedPdfUseCase hands the page itself
\* to generate_pdf_with_translation, which assigns every paragraph's translation
ProcessPage(usecase, page) ==
    IF usecase = OCR
    THEN [page |-> page,
          latex |-> ConvertParagraphsToLatex(page.paragraphs, page.formulas).paragraphs]
    ELSE IF usecase = WITH_FORMULA_ID
    THEN [page |-> page,
          latex |-> ConvertParagraphsWithFormulaIdToLatex(page.paragraphs, page.formulas)]
    ELSE LET paragraphs ==
                 ConvertParagraphsWithTranslationToLatex(page.paragraphs, page.formulas)
         IN [page |-> [page EXCEPT
                          !.paragraphs = [i \in 1..Len(page.paragraphs) |->
                                             [page.paragraphs[i] EXCEPT
                                                 !.translation = paragraphs[i].content]]],
             latex |-> paragraphs]

RenderIdle ==
    /\ rn_pc = "idle"
    /\ rn_usecase = "idle"
    /\ rn_input = "idle"
    /\ rn_page = "idle"
    /\ rn_first = "idle"
    /\ rn_second = "idle"

RenderInit ==
    /\ rn_pc = "start"
    /\ rn_usecase \in {OCR, TRANSLATED, WITH_FORMULA_ID}
    /\ \E cs \in SeqsUpTo(ThreadContents, MaxThreadParagraphs),
          fs \in SeqsUpTo([kind : ThreadKinds, value : ThreadValues], MaxThreadFormulas) :
         \E ts \in RenderTranslations(rn_usecase, cs) :
            rn_input = [page_number |-> 1,
                        paragraphs |-> [i \in 1..Len(cs) |->
                                           [paragraph_id |-> i - 1, content |-> cs[i],
                                            translation |-> ts[i]]],
                        formulas |-> FormulasInPage(fs, 1)]
    /\ rn_page = rn_input
    /\ rn_first = <<>>
    /\ rn_second = <<>>

\* the use case renders the page
RenderProcessPage ==
    /\ rn_pc = "start"
    /\ LET r == ProcessPage(rn_usecase, rn_page)
       IN /\ rn_page' = r.page
          /\ rn_first' = r.latex
    /\ rn_pc' = "once"
    /\ UNCHANGED <<rn_usecase, rn_input, rn_second>>
    /\ RenderFrame

\* the use case renders the same page object a second time
RenderProcessPageAgain ==
    /\ rn_pc = "once"
    /\ LET r == ProcessPage(rn_usecase, rn_page)
       IN /\ rn_page' = r.page
          /\ rn_second' = r.latex
    /\ rn_pc' = "twice"
    /\ UNCHANGED <<rn_usecase, rn_input, rn_first>>
    /\ RenderFrame

----------------------------------------------------------------------------
(* AzureOcrRepository.get_sections, twice on one instance.  A result is tagged  *)
(* with its document; a page is the number of its lines, a paragraph the page   *)
(* of its first bounding region (0: none), a section the indexes its            *)
(* '/paragraphs/N' elements name.  An attribute of the instance is              *)
(* [doc, value], doc = 0 while it was never assigned.                           *)

MaxRepoPages == 2

RepoParagraphs == { <<>>, <<1>>, <<1, 2>>, <<0, 1>> }
RepoSectionLists == { <<>>, << <<>> >>, << <<0>> >>, << <<0>>, <<1>> >> }

\* recognition results: paragraphs lie on pages of the result, sections name
\* paragraphs of the result
RepoResults(doc) ==
    { r \in [doc : {doc}, pages : SeqsUpTo({0, 1}, MaxRepoPages),
             paragraphs : RepoParagraphs, sections : RepoSectionLists,
             styles : BOOLEAN] :
        /\ \A i \in 1..Len(r.paragraphs) : r.paragraphs[i] <= Len(r.pages)
        /\ \A s \in 1..Len(r.sections) : \A i \in 1..Len(r.sections[s]) :
              r.sections[s][i] < Len(r.paragraphs) }

\* the results of a second document
RepoSecondResults ==
    { r \in RepoResults(2) : ~r.styles /\ Len(r.pages) <= 1 /\ Len(r.paragraphs) <= 1 }

Unassigned == [doc |-> 0, value |-> <<>>]

\* _read_document: `if self.result.x: self.x = self.result.x` for pages,
\* sections, paragraphs and styles
ReadDocument(self, result) ==
    [pages |-> IF result.pages # <<>>
               THEN [doc |-> result.doc, value |-> result.pages] ELSE self.pages,
     sections |-> IF result.sections # <<>>
                  THEN [doc |-> result.doc, value |-> result.sections] ELSE self.sections,
     paragraphs |-> IF result.paragraphs # <<>>
                    THEN [doc |-> result.doc, value |-> result.paragraphs]
                    ELSE self.paragraphs,
     styles |-> IF result.styles
                THEN [doc |-> result.doc, value |-> <<>>] ELSE self.styles]

\* _analyze_page raises when the page has a line and self.styles was never
\* assigned (AttributeError at _get_line_style(line.spans[0], self.styles))
AnalyzePageRaises(self, p) == self.pages.value[p] > 0 /\ self.styles.doc = 0

\* self._page_cache[page_number] = {...}
CachePut(cache, page_number, doc) ==
    {e \in cache : e.page_number # page_number}
        \cup {[page_number |-> page_number, doc |-> doc]}

\* the paragraph loop of _analyze_section from reference i on
RECURSIVE AnalyzeSectionParagraphs(_, _, _, _, _)
AnalyzeSectionParagraphs(self, cache, paragraph_ids, i, paragraphs) ==
    IF i > Len(paragraph_ids) THEN [raised |-> FALSE, paragraphs |-> paragraphs]
    ELSE IF self.paragraphs.doc = 0 \/ paragraph_ids[i] >= Len(self.paragraphs.value)
    THEN [raised |-> TRUE, paragraphs |-> <<>>]
    ELSE LET page_number == self.paragraphs.value[paragraph_ids[i] + 1]
             entries == {e \in cache : e.page_number = page_number}
         IN IF page_number = 0
            THEN AnalyzeSectionParagraphs(self, cache, paragraph_ids, i + 1, paragraphs)
            ELSE IF entries = {} THEN [raised |-> TRUE, paragraphs |-> <<>>]
            ELSE AnalyzeSectionParagraphs(self, cache, paragraph_ids, i + 1,
                    Append(paragraphs,
                           [paragraph_id |-> paragraph_ids[i],
                            doc |-> self.paragraphs.doc,
                            cache_doc |-> (CHOOSE e \in entries : TRUE).doc]))

RepoIdle ==
    /\ repo_pc = "idle"
    /\ repo_results = "idle"
    /\ repo_call = "idle"
    /\ repo_self = "idle"
    /\ repo_cache = "idle"
    /\ repo_todo = "idle"
    /\ repo_sections = "idle"
    /\ repo_failed = "idle"

\* a new instance, and the results of the two documents it will read
RepoInit ==
    /\ repo_pc = "ready"
    /\ repo_results \in {<<r1, r2>> : r1 \in RepoResults(1), r2 \in RepoSecondResults}
    /\ repo_call = 0
    /\ repo_self = [pages |-> Unassigned, sections |-> Unassigned,
                    paragraphs |-> Unassigned, styles |-> Unassigned]
    /\ repo_cache = {}
    /\ repo_todo = {}
    /\ repo_sections = <<>>
    /\ repo_failed = {}

\* get_sections up to the submits of _preprocess_pages, for the next document;
\* iterating self.pages raises AttributeError when it was never assigned
RepoReadDocument ==
    /\ repo_pc \in {"ready", "returned"}
    /\ repo_call < Len(repo_results)
    /\ repo_call' = repo_call + 1
    /\ repo_self' = ReadDocument(repo_self, repo_results[repo_call + 1])
    /\ repo_pc' = IF repo_self'.pages.doc = 0 THEN "raised" ELSE "preprocess"
    /\ repo_todo' = 1..Len(repo_self'.pages.value)
    /\ repo_sections' = <<>>
    /\ repo_failed' = {}
    /\ UNCHANGED <<repo_results, repo_cache>>
    /\ RepoFrame

\* a page's future completes, in any order: its entry is stored, or the
\* exception of _analyze_page is logged
RepoAnalyzePage ==
    /\ repo_pc = "preprocess"
    /\ \E p \in repo_todo :
          /\ repo_todo' = repo_todo \ {p}
          /\ repo_cache' = IF AnalyzePageRaises(repo_self, p) THEN repo_cache
                           ELSE CachePut(repo_cache, p, repo_self.pages.doc)
    /\ UNCHANGED <<repo_pc, repo_results, repo_call, repo_self, repo_sections, repo_failed>>
    /\ RepoFrame

\* _preprocess_pages is over and _get_sections submits one task per section;
\* iterating self.sections raises AttributeError when it was never assigned
RepoGetSections ==
    /\ repo_pc = "preprocess"
    /\ repo_todo = {}
    /\ repo_pc' = IF repo_self.sections.doc = 0 THEN "raised" ELSE "sections"
    /\ repo_todo' = 1..Len(repo_self.sections.value)
    /\ UNCHANGED <<repo_results, repo_call, repo_self, repo_cache, repo_sections,
                   repo_failed>>
    /\ RepoFrame

\* a section's future completes, in any order: the section is appended, or the
\* exception of _analyze_section is logged
RepoAnalyzeSection ==
    /\ repo_pc = "sections"
    /\ \E s \in repo_todo :
          LET r == AnalyzeSectionParagraphs(repo_self, repo_cache,
                                            repo_self.sections.value[s], 1, <<>>)
          IN /\ repo_todo' = repo_todo \ {s}
             /\ repo_sections' =
                   IF r.raised THEN repo_sections
                   ELSE Append(repo_sections,
                               [doc |-> repo_self.sections.doc, paragraphs |-> r.paragraphs])
             /\ repo_failed' = IF r.raised THEN repo_failed \cup {s} ELSE repo_failed
    /\ UNCHANGED <<repo_pc, repo_results, repo_call, repo_self, repo_cache>>
    /\ RepoFrame

\* get_sections returns the sections collected
RepoReturn ==
    /\ repo_pc = "sections"
    /\ repo_todo = {}
    /\ repo_pc' = "returned"
    /\ UNCHANGED <<repo_results, repo_call, repo_self, repo_cache, repo_todo,
                   repo_sections, repo_failed>>
    /\ RepoFrame

----------------------------------------------------------------------------
(* _request_translate of OpenAITranslateSectionRepository and of                *)
(* AzureOpenAITranslateSectionRepository: the retry loop around                 *)
(* client.chat.completions.create.  A response is its message content and its   *)
(* usage (<<>>: no usage, else <<prompt_tokens, completion_tokens>>); the        *)
(* outcome rt_result is <<>> while the loop runs, then <<"returned", dict>> or  *)
(* <<"raised", message>>.                                                       *)

MaxRetryLimit == 4

RetryRepositories == {"openai", "azure_openai"}
RetryResponses == [content : {"t1", "t2"}, usage : {<<>>, <<12, 7>>}]

\* `while retry_count < self.retry_limit`
RetryLoopConditionInclusive(count, limit) == count <= limit
RetryLoopCondition(count, limit) == count < limit

\* the dict returned for a response
RetrySuccess(response) ==
    [status |-> "success",
     data |-> response.content,
     input_tokens |-> IF response.usage # <<>> THEN response.usage[1] ELSE 0,
     output_tokens |-> IF response.usage # <<>> THEN response.usage[2] ELSE 0]

RetryIdle ==
    /\ rt_pc = "idle"
    /\ rt_repository = "idle"
    /\ retry_limit = "idle"
    /\ retry_count = "idle"
    /\ rt_attempts = "idle"
    /\ rt_result = "idle"

\* _request_translate entered: retry_count = 0, no call made yet
RetryInit ==
    /\ rt_pc = "loop"
    /\ rt_repository \in RetryRepositories
    /\ retry_limit \in 0..MaxRetryLimit
    /\ retry_count = 0
    /\ rt_attempts = <<>>
    /\ rt_result = <<>>

\* an iteration whose call returns a response: the dict is returned
RetryAttemptSucceeds ==
    /\ rt_pc = "loop"
    /\ RetryLoopCondition(retry_count, retry_limit)
    /\ \E response \in RetryResponses :
          /\ rt_attempts' = Append(rt_attempts, "returned")
          /\ rt_result' = <<"returned", RetrySuccess(response)>>
    /\ rt_pc' = "returned"
    /\ UNCHANGED <<rt_repository, retry_limit, retry_count>>
    /\ RetryFrame

\* an iteration whose call raises: retry_count += 1, warning, sleep
RetryAttemptRaises ==
    /\ rt_pc = "loop"
    /\ RetryLoopCondition(retry_count, retry_limit)
    /\ rt_attempts' = Append(rt_attempts, "raised")
    /\ retry_count' = retry_count + 1
    /\ UNCHANGED <<rt_pc, rt_repository, retry_limit, rt_result>>
    /\ RetryFrame

\* the loop condition fails: raise Exception("Failed to translate")
RetryExhausted ==
    /\ rt_pc = "loop"
    /\ ~RetryLoopCondition(retry_count, retry_limit)
    /\ rt_pc' = "raised"
    /\ rt_result' = <<"raised", "Failed to translate">>
    /\ UNCHANGED <<rt_repository, retry_limit, retry_count, rt_attempts>>
    /\ RetryFrame

----------------------------------------------------------------------------
(* Specifications *)

InitRealign ==
    /\ RealignInit
    /\ ThreadIdle /\ LinesIdle /\ SectionsIdle /\ FanOutIdle /\ AsyncIdle /\ PdfIdle /\ BatchIdle /\ DocumentIdle /\ DevIdle /\ OcrIdle /\ StyleIdle /\ ChangeIdle /\ RenderIdle /\ RepoIdle /\ RetryIdle

SpecRealign ==
    /\ InitRealign
    /\ [][RealignExecute]_vars

InitThread ==
    /\ ThreadInit
    /\ RealignIdle /\ LinesIdle /\ SectionsIdle /\ FanOutIdle /\ AsyncIdle /\ PdfIdle /\ BatchIdle /\ DocumentIdle /\ DevIdle /\ OcrIdle /\ StyleIdle /\ ChangeIdle /\ RenderIdle /\ RepoIdle /\ RetryIdle

SpecThread ==
    /\ InitThread
    /\ [][\/ ThreadAnalyzeResultToPages
          \/ ThreadGeneratePdf
          \/ ThreadGeneratePdfWithTranslation
          \/ ThreadGeneratePdfWithFormulaId
          \/ ThreadChangeFormulaId
          \/ ThreadGeneratePdfOfTagged]_vars

InitLines ==
    /\ LinesInit
    /\ RealignIdle /\ ThreadIdle /\ SectionsIdle /\ FanOutIdle /\ AsyncIdle /\ PdfIdle /\ BatchIdle /\ DocumentIdle /\ DevIdle /\ OcrIdle /\ StyleIdle /\ ChangeIdle /\ RenderIdle /\ RepoIdle /\ RetryIdle

SpecLines ==
    /\ InitLines
    /\ [][LinesGetTextlines]_vars

InitSections ==
    /\ SectionsInit
    /\ RealignIdle /\ ThreadIdle /\ LinesIdle /\ FanOutIdle /\ AsyncIdle /\ PdfIdle /\ BatchIdle /\ DocumentIdle /\ DevIdle /\ OcrIdle /\ StyleIdle /\ ChangeIdle /\ RenderIdle /\ RepoIdle /\ RetryIdle

SpecSections ==
    /\ InitSections
    /\ [][\/ SectionsGetDocument
          \/ SectionsFutureCompleted
          \/ SectionsReturn]_vars

InitFanOut ==
    /\ FanOutInit
    /\ RealignIdle /\ ThreadIdle /\ LinesIdle /\ SectionsIdle /\ AsyncIdle /\ PdfIdle /\ BatchIdle /\ DocumentIdle /\ DevIdle /\ OcrIdle /\ StyleIdle /\ ChangeIdle /\ RenderIdle /\ RepoIdle /\ RetryIdle

SpecFanOut ==
    /\ InitFanOut
    /\ [][\/ FanOutFutureCompleted
          \/ FanOutReturn]_vars

InitAsync ==
    /\ AsyncInit
    /\ RealignIdle /\ ThreadIdle /\ LinesIdle /\ SectionsIdle /\ FanOutIdle /\ PdfIdle /\ BatchIdle /\ DocumentIdle /\ DevIdle /\ OcrIdle /\ StyleIdle /\ ChangeIdle /\ RenderIdle /\ RepoIdle /\ RetryIdle

SpecAsync ==
    /\ InitAsync
    /\ [][\/ AsyncDispatch
          \/ AsyncChunkCompleted
          \/ AsyncReturn]_vars

InitPdf ==
    /\ PdfInit
    /\ RealignIdle /\ ThreadIdle /\ LinesIdle /\ SectionsIdle /\ FanOutIdle /\ AsyncIdle /\ BatchIdle /\ DocumentIdle /\ DevIdle /\ OcrIdle /\ StyleIdle /\ ChangeIdle /\ RenderIdle /\ RepoIdle /\ RetryIdle

SpecPdf ==
    /\ InitPdf
    /\ [][\/ PdfFutureCompleted
          \/ PdfMerge]_vars

InitBatch ==
    /\ BatchInit
    /\ RealignIdle /\ ThreadIdle /\ LinesIdle /\ SectionsIdle /\ FanOutIdle /\ AsyncIdle /\ PdfIdle /\ DocumentIdle /\ DevIdle /\ OcrIdle /\ StyleIdle /\ ChangeIdle /\ RenderIdle /\ RepoIdle /\ RetryIdle

SpecBatch ==
    /\ InitBatch
    /\ [][\/ BatchRequestTranslate
          \/ BatchTranslateParagraphs]_vars

InitDocument ==
    /\ DocumentInit
    /\ RealignIdle /\ ThreadIdle /\ LinesIdle /\ SectionsIdle /\ FanOutIdle /\ AsyncIdle /\ PdfIdle /\ BatchIdle /\ DevIdle /\ OcrIdle /\ StyleIdle /\ ChangeIdle /\ RenderIdle /\ RepoIdle /\ RetryIdle

SpecDocument ==
    /\ InitDocument
    /\ [][DocumentGetDocument]_vars

InitDev ==
    /\ DevInit
    /\ RealignIdle /\ ThreadIdle /\ LinesIdle /\ SectionsIdle /\ FanOutIdle /\ AsyncIdle /\ PdfIdle /\ BatchIdle /\ DocumentIdle /\ OcrIdle /\ StyleIdle /\ ChangeIdle /\ RenderIdle /\ RepoIdle /\ RetryIdle

SpecDev ==
    /\ InitDev
    /\ [][\/ DevGetSections
          \/ DevGetDisplayFormulas]_vars

InitOcr ==
    /\ OcrInit
    /\ RealignIdle /\ ThreadIdle /\ LinesIdle /\ SectionsIdle /\ FanOutIdle /\ AsyncIdle /\ PdfIdle /\ BatchIdle /\ DocumentIdle /\ DevIdle /\ StyleIdle /\ ChangeIdle /\ RenderIdle /\ RepoIdle /\ RetryIdle

SpecOcr ==
    /\ InitOcr
    /\ [][\/ OcrAnalyzePage
          \/ OcrAnalyzeLine
          \/ OcrCachePage
          \/ OcrGetDisplayFormulas]_vars

InitStyle ==
    /\ StyleInit
    /\ RealignIdle /\ ThreadIdle /\ LinesIdle /\ SectionsIdle /\ FanOutIdle /\ AsyncIdle /\ PdfIdle /\ BatchIdle /\ DocumentIdle /\ DevIdle /\ OcrIdle /\ ChangeIdle /\ RenderIdle /\ RepoIdle /\ RetryIdle

SpecStyle ==
    /\ InitStyle
    /\ [][StyleGetLineStyle]_vars

InitChange ==
    /\ ChangeInit
    /\ RealignIdle /\ ThreadIdle /\ LinesIdle /\ SectionsIdle /\ FanOutIdle /\ AsyncIdle /\ PdfIdle /\ BatchIdle /\ DocumentIdle /\ DevIdle /\ OcrIdle /\ StyleIdle /\ RenderIdle /\ RepoIdle /\ RetryIdle

SpecChange ==
    /\ InitChange
    /\ [][ChangeExecute]_vars

InitRender ==
    /\ RenderInit
    /\ RealignIdle /\ ThreadIdle /\ LinesIdle /\ SectionsIdle /\ FanOutIdle /\ AsyncIdle /\ PdfIdle /\ BatchIdle /\ DocumentIdle /\ DevIdle /\ OcrIdle /\ StyleIdle /\ ChangeIdle /\ RepoIdle /\ RetryIdle

SpecRender ==
    /\ InitRender
    /\ [][\/ RenderProcessPage
          \/ RenderProcessPageAgain]_vars

InitRepo ==
    /\ RepoInit
    /\ RealignIdle /\ ThreadIdle /\ LinesIdle /\ SectionsIdle /\ FanOutIdle /\ AsyncIdle /\ PdfIdle /\ BatchIdle /\ DocumentIdle /\ DevIdle /\ OcrIdle /\ StyleIdle /\ ChangeIdle /\ RenderIdle /\ RetryIdle

SpecRepo ==
    /\ InitRepo
    /\ [][\/ RepoReadDocument
          \/ RepoAnalyzePage
          \/ RepoGetSections
          \/ RepoAnalyzeSection
          \/ RepoReturn]_vars

InitRetry ==
    /\ RetryInit
    /\ RealignIdle /\ ThreadIdle /\ LinesIdle /\ SectionsIdle /\ FanOutIdle /\ AsyncIdle /\ PdfIdle /\ BatchIdle /\ DocumentIdle /\ DevIdle /\ OcrIdle /\ StyleIdle /\ ChangeIdle /\ RenderIdle /\ RepoIdle

SpecRetry ==
    /\ InitRetry
    /\ [][\/ RetryAttemptSucceeds
          \/ RetryAttemptRaises
          \/ RetryExhausted]_vars
    \* the call of an iteration returns or raises, and the thread runs on
    /\ WF_vars(RetryAttemptSucceeds \/ RetryAttemptRaises \/ RetryExhausted)

----------------------------------------------------------------------------
(* Claims *)


\* the paragraph ids that occur in some translated section
TranslatedIds ==
    UNION {{translated_sections[s].paragraphs[j].paragraph_id :
                j \in 1..Len(translated_sections[s].paragraphs)} :
           s \in 1..Len(translated_sections)}

\* C1: execute returns one PageWithTranslation per input page in the same order,
\* each with as many paragraphs as the input page, and a page paragraph whose id
\* is in no translated section appears with translation equal to its own content.
C1_TranslationCoverage ==
    rl_pc = "done" =>
        /\ Len(page_with_translations) = Len(pages)
        /\ \A i \in 1..Len(pages) :
             /\ page_with_translations[i].page_number = pages[i].page_number
             /\ Len(page_with_translations[i].paragraphs) = Len(pages[i].paragraphs)
             /\ \A j \in 1..Len(pages[i].paragraphs) :
                  LET p == pages[i].paragraphs[j]
                      q == page_with_translations[i].paragraphs[j]
                  IN /\ q.paragraph_id = p.paragraph_id
                     /\ p.paragraph_id \notin TranslatedIds =>
                            /\ q.translation = p.content
                            /\ q.content = p.content

\* a finished call on two pages, with a page that holds one translated and one
\* untranslated paragraph
C1_Witness ==
    /\ rl_pc = "done"
    /\ Len(pages) = 2
    /\ \E i \in 1..Len(pages) :
         /\ \E j \in 1..Len(pages[i].paragraphs) :
              pages[i].paragraphs[j].paragraph_id \notin TranslatedIds
         /\ \E j \in 1..Len(pages[i].paragraphs) :
              pages[i].paragraphs[j].paragraph_id \in TranslatedIds

\* the values of the page's inline-kind formulas, in page order
InlineValues ==
    LET fs == SelectSeq(th_result.formulas, LAMBDA f : f.kind = "inline")
    IN [i \in 1..Len(fs) |-> fs[i].value]

RECURSIVE TokensBefore(_)
TokensBefore(j) ==
    IF j <= 1 THEN 0
    ELSE TokensBefore(j - 1) + Count(th_result.paragraphs[j - 1], FORMULA)

TotalTokens == TokensBefore(Len(th_result.paragraphs) + 1)

\* text s with its placeholders replaced left to right by $values[k]$, $values[k+1]$, ...
RECURSIVE SubstInOrder(_, _, _)
SubstInOrder(s, values, k) ==
    IF s = <<>> THEN <<>>
    ELSE IF Head(s) = FORMULA
         THEN (IF k <= Len(values) THEN <<"$">> \o values[k] \o <<"$">> ELSE <<FORMULA>>)
              \o SubstInOrder(Tail(s), values, k + 1)
         ELSE <<Head(s)>> \o SubstInOrder(Tail(s), values, k)

\* C2: on a page with k inline formulas (all of them valid LaTeX) whose paragraphs
\* hold k placeholders in total, convert_paragraphs_to_latex leaves no placeholder
\* and replaces the i-th placeholder in reading order by $v$, v the value of the
\* i-th inline formula, also when the page has display formulas.
C2_FormulaThreading ==
    (/\ th_pc = "done"
     /\ Len(InlineValues) = TotalTokens
     /\ \A i \in 1..Len(InlineValues) : INVALID_ARRAY \notin Range(InlineValues[i]))
    => \A j \in 1..Len(th_latex) :
          /\ FORMULA \notin Range(th_latex[j].content)
          /\ th_latex[j].content =
                SubstInOrder(EscapeLatex(th_result.paragraphs[j]), InlineValues,
                             1 + TokensBefore(j))

\* the same, for pages without display formulas
C2_InlineOnlyThreading ==
    (\A i \in 1..Len(th_result.formulas) : th_result.formulas[i].kind = "inline")
    => C2_FormulaThreading

\* the lines of the array whose offset lies in the paragraph's range
InRange(i) ==
    /\ paragraph_span.offset <= text_lines[i].span.offset
    /\ text_lines[i].span.offset < paragraph_span.offset + paragraph_span.length

\* C3: on a line array sorted by offset, the binary-search version returns the
\* linear filter of the earlier version: a contiguous slice of the array that
\* holds every line starting in [s, s+len) and no other, empty when len = 0 or no
\* line starts in the range.
C3_LineCoverage ==
    ln_pc = "done" =>
        /\ ln_binary = ln_linear
        /\ \E lo \in 1..(Len(text_lines) + 1), hi \in 0..Len(text_lines) :
             /\ ln_binary = (IF hi < lo THEN <<>> ELSE SubSeq(text_lines, lo, hi))
             /\ \A i \in 1..Len(text_lines) : InRange(i) <=> (lo <= i /\ i <= hi)
        /\ (paragraph_span.length = 0 \/ \A i \in 1..Len(text_lines) : ~InRange(i))
              => ln_binary = <<>>

\* a finished lookup that returns an inner slice: lines before and after it are
\* left out
C3_Witness ==
    /\ ln_pc = "done"
    /\ Len(ln_binary) >= 2
    /\ Len(text_lines) > Len(ln_binary)
    /\ ~InRange(Len(text_lines))

\* the indices the references of one kind declare, in declaration order
DeclaredIds(elements, kind) ==
    LET refs == SelectSeq(elements, LAMBDA e : e[2] = kind)
    IN [i \in 1..Len(refs) |-> refs[i][4]]

\* the flat-array entities a list of declared indices refers to: those inside the
\* array that have a bounding region, in declaration order
Referenced(array, ids) ==
    LET kept == SelectSeq(ids, LAMBDA n : n < Len(array) /\ array[n + 1] # 0)
    IN [i \in 1..Len(kept) |-> [id |-> kept[i], page_number |-> array[kept[i] + 1]]]

\* C4: when get_document resolves the sections, a section's paragraphs are the
\* flat-array paragraphs its "/paragraphs/N" references name, in declaration
\* order and with paragraph_id N; likewise, independently, its figures and tables.
C4_SectionOrdering ==
    (sc_pc # "start" /\ ~sc_document.raised) =>
        /\ Len(sc_document.sections) = Len(sc_result.sections)
        /\ \A s \in 1..Len(sc_document.sections) :
             LET elements == sc_result.sections[s]
                 section == sc_document.sections[s]
             IN ~IsNoneElements(elements) =>
                  /\ section.paragraphs =
                        Referenced(sc_result.paragraphs, DeclaredIds(elements, "paragraphs"))
                  /\ sc_result.figures # NoneArray =>
                        section.figures =
                           Referenced(sc_result.figures, DeclaredIds(elements, "figures"))
                  /\ sc_result.tables # NoneArray =>
                        section.tables =
                           Referenced(sc_result.tables, DeclaredIds(elements, "tables"))

\* the first section declares paragraph 1, figure 0, paragraph 0 and resolves to
\* paragraphs [1, 0] and figures [0]
C4_Witness ==
    /\ sc_pc # "start"
    /\ ~sc_document.raised
    /\ sc_result.sections[1] = <<Ref("paragraphs", 1), Ref("figures", 0), Ref("paragraphs", 0)>>
    /\ sc_document.sections[1].paragraphs =
          <<[id |-> 1, page_number |-> 1], [id |-> 0, page_number |-> 1]>>
    /\ sc_document.sections[1].figures = <<[id |-> 0, page_number |-> 1]>>

\* some section refers past the end of a flat array
HasUnresolvedReference ==
    \E s \in 1..Len(sc_result.sections) :
        \/ \E i \in 1..Len(DeclaredIds(sc_result.sections[s], "paragraphs")) :
              DeclaredIds(sc_result.sections[s], "paragraphs")[i] >= Len(sc_result.paragraphs)
        \/ \E i \in 1..Len(DeclaredIds(sc_result.sections[s], "figures")) :
              DeclaredIds(sc_result.sections[s], "figures")[i] >= Len(sc_result.figures)
        \/ \E i \in 1..Len(DeclaredIds(sc_result.sections[s], "tables")) :
              DeclaredIds(sc_result.sections[s], "tables")[i] >= Len(sc_result.tables)

\* the recognition result has every flat array and every section an element list
ResultComplete ==
    /\ sc_result.figures # NoneArray
    /\ sc_result.tables # NoneArray
    /\ \A s \in 1..Len(sc_result.sections) : ~IsNoneElements(sc_result.sections[s])

\* get_document's part of C10
C10_GetDocumentSkips ==
    (sc_pc = "done" /\ ResultComplete /\ HasUnresolvedReference) =>
        /\ ~sc_document.raised
        /\ Len(sc_document.sections) = Len(sc_result.sections)
        /\ \A s \in 1..Len(sc_document.sections) :
             sc_document.sections[s].paragraphs =
                Referenced(sc_result.paragraphs,
                           DeclaredIds(sc_result.sections[s], "paragraphs"))

\* get_sections' part of C10
C10_GetSectionsSkips ==
    (sc_pc = "done" /\ ResultComplete /\ HasUnresolvedReference) =>
        \A s \in 1..Len(sc_result.sections) :
            \E k \in 1..Len(sc_sections) :
                /\ sc_sections[k].declared = s
                /\ sc_sections[k].paragraphs =
                      Referenced(sc_result.paragraphs,
                                 DeclaredIds(sc_result.sections[s], "paragraphs"))

\* C10: a reference whose index is past the end of its flat array is skipped
\* alone: the other references of the section are resolved, the other sections
\* are unaffected, and neither get_document nor get_sections raises or loses a
\* section.
C10_UnresolvedReferenceSkipped == C10_GetDocumentSkips /\ C10_GetSectionsSkips

\* the section ids of a result list, in list order
SectionIds(results) == [k \in 1..Len(results) |-> results[k].section_id]

\* execute's part of C5
C5_ExecuteOrder ==
    fo_pc = "returned" => SectionIds(section_with_translations) = SectionIds(fo_sections)

\* _get_sections' part of C5: the surviving sections are in declaration order
C5_GetSectionsOrder ==
    sc_pc = "done" =>
        \A k \in 1..Len(sc_sections) : \A m \in 1..Len(sc_sections) :
            k < m => sc_sections[k].declared < sc_sections[m].declared

\* C5: the as_completed fan-outs return their per-section results in the
\* declaration order of the input sections, whatever the order in which the
\* worker tasks complete.
C5_DeclarationOrder == C5_ExecuteOrder /\ C5_GetSectionsOrder

\* C6: when every section task succeeds, execute_async returns exactly one
\* SectionWithTranslation per input section, sorted by ascending section_id,
\* whatever the completion order and although the tasks are dispatched by
\* descending content length.
C6_SortedBySectionId ==
    as_pc = "returned" =>
        /\ Len(sections_with_translation) = Len(as_sections)
        /\ \A t \in 1..Len(as_sections) :
             Cardinality({k \in 1..Len(sections_with_translation) :
                             sections_with_translation[k].section_id
                                = as_sections[t].section_id}) = 1
        /\ \A k \in 1..Len(sections_with_translation) :
             \A m \in 1..Len(sections_with_translation) :
                k < m => sections_with_translation[k].section_id
                            < sections_with_translation[m].section_id

\* a returned call whose tasks were dispatched against the id order: the longer
\* section 1 went first, and it was translated in two chunks
C6_Witness ==
    /\ as_pc = "returned"
    /\ Len(as_sections) = 2
    /\ as_sections[1].section_id = 1
    /\ Len(as_tasks[1]) = 2
    /\ SectionIds(sections_with_translation) = <<0, 1>>

\* execute's part of C7: the provider raised for a section and answered for
\* another, and the call is over
C7_ExecuteIsolation ==
    (/\ fo_usecase = "TranslateSectionFormulaIdUseCase"
     /\ fo_pc \in {"returned", "raised"}
     /\ \E i \in 1..Len(fo_sections) : fo_provider[i] = "raise"
     /\ \E i \in 1..Len(fo_sections) : fo_provider[i] = "ok")
    => /\ fo_pc = "returned"
       /\ \A i \in 1..Len(fo_sections) :
            fo_provider[i] = "ok" =>
               \E k \in 1..Len(section_with_translations) :
                  section_with_translations[k].section_id = fo_sections[i].section_id

\* execute_async's part of C7: the provider raised for a chunk of one section
\* and answered for every chunk of the other sections, and the call is over
C7_AsyncIsolation ==
    (/\ as_pc \in {"returned", "raised"}
     /\ Len(as_sections) >= 2
     /\ \E t \in 1..Len(as_tasks) :
          /\ \E c \in 1..Len(as_tasks[t]) : as_tasks[t][c] = "raise"
          /\ \A u \in 1..Len(as_tasks) : \A c \in 1..Len(as_tasks[u]) :
                u # t => as_tasks[u][c] = "ok")
    => /\ as_pc = "returned"
       /\ \E t \in 1..Len(as_sections) :
            \E k \in 1..Len(sections_with_translation) :
               sections_with_translation[k].section_id = as_sections[t].section_id

\* C7: if the translation provider raises for one section while succeeding for
\* the others, execute and execute_async still return the translated results of
\* the other sections.
C7_FailureIsolated == C7_ExecuteIsolation /\ C7_AsyncIsolation

\* the page number a page file path was written for
PathPageNumber(path) ==
    CHOOSE n \in 1..(MaxPdfPages + 1) :
        \/ path = PageOutputPath(pd_usecase, output_path, n)
        \/ path = ErrorPageOutputPath(output_path, n)

PageNumbersOf(paths) == [k \in 1..Len(paths) |-> PathPageNumber(paths[k])]

\* C8: when the primary renderer raises for some page and the error generator
\* renders it, GenerateTranslatedPDFWithFormulaIdUseCase.execute still returns a
\* merged document and one page file path per input page, the page files merged
\* in ascending page-number order.
C8_FallbackPageMerged ==
    (/\ pd_usecase = WITH_FORMULA_ID
     /\ pd_pc \in {"returned", "raised"}
     /\ \E i \in 1..Len(pd_pages) : pd_render[i] = "fallback"
     /\ \A i \in 1..Len(pd_pages) : pd_render[i] # "fail")
    => /\ pd_pc = "returned"
       /\ Len(page_pdf_paths) = Len(pd_pages)
       /\ PageNumbersOf(pd_merged) = [i \in 1..Len(pd_pages) |-> pd_pages[i].page_number]

\* the pages whose rendering succeeds, in ascending page-number order
RenderedPageNumbers ==
    SetToSortedSeq({pd_pages[i].page_number : i \in {j \in 1..Len(pd_pages) : pd_render[j] = "ok"}})

\* C9: when rendering raises for some pages and succeeds for at least one,
\* GenerateTranslatedPdfUseCase.execute and OCRPDFUseCase.execute return, and the
\* merged document consists of exactly the rendered pages in ascending
\* page-number order, whatever the completion order of the page tasks.
C9_FailedPagesOmitted ==
    (/\ pd_usecase \in {TRANSLATED, OCR}
     /\ pd_pc \in {"returned", "raised"}
     /\ \E i \in 1..Len(pd_pages) : pd_render[i] = "ok")
    => /\ pd_pc = "returned"
       /\ PageNumbersOf(pd_merged) = RenderedPageNumbers

\* a returned call in which page 2 failed and page 3 finished before page 1
C9_Witness ==
    /\ pd_usecase \in {TRANSLATED, OCR}
    /\ pd_pc = "returned"
    /\ pd_render = <<"ok", "fail", "ok">>
    /\ PageNumbersOf(page_pdf_paths) = <<3, 1>>
    /\ PageNumbersOf(pd_merged) = <<1, 3>>

\* C11: a section with an empty element list, and likewise a section with no
\* element list at all, resolves to a Section whose paragraphs, tables and figures
\* are empty, without raising, whatever flat arrays the recognition result has.
C11_EmptySectionResolves ==
    (/\ sc_pc # "start"
     /\ \A s \in 1..Len(sc_result.sections) :
          IsNoneElements(sc_result.sections[s]) \/ sc_result.sections[s] = <<>>)
    => /\ ~sc_document.raised
       /\ Len(sc_document.sections) = Len(sc_result.sections)
       /\ \A s \in 1..Len(sc_document.sections) :
            /\ sc_document.sections[s].paragraphs = <<>>
            /\ sc_document.sections[s].tables = <<>>
            /\ sc_document.sections[s].figures = <<>>

\* the same, for sections that have an element list, which is empty
C11_EmptyListResolves ==
    (\A s \in 1..Len(sc_result.sections) : sc_result.sections[s] = <<>>)
    => C11_EmptySectionResolves

\* the labels of the response's blocks, in response order
ResponseLabels ==
    LET parts == Tail(Split(tp_response, "### Paragraph", <<>>))
    IN [k \in 1..Len(parts) |-> Split(parts[k], "###", <<>>)[1]]

\* C12: the result has one entry per input paragraph, and the entry with
\* paragraph_id n carries the text the response labelled '### Paragraph n ###',
\* whatever the order and number of labelled blocks in the response.
C12_CorrelatedById ==
    tp_pc = "done" =>
        /\ Len(paragraphs_with_translation) = Len(tp_paragraphs)
        /\ \A k \in 1..Len(paragraphs_with_translation) :
             LET n == paragraphs_with_translation[k].paragraph_id
             IN /\ n = tp_paragraphs[k].paragraph_id
                /\ \E b \in 1..Len(ResponseLabels) :
                     /\ ResponseLabels[b] = <<ToString(n)>>
                     /\ paragraphs_with_translation[k].translation
                           = ParseBatchTranslateResponse(tp_response)[b]

\* the same, for a response that labels its blocks with the ids of the batch in
\* batch order
C12_CorrelatedWhenAligned ==
    (/\ tp_pc = "done"
     /\ ResponseLabels = [k \in 1..Len(tp_paragraphs) |->
                             <<ToString(tp_paragraphs[k].paragraph_id)>>])
    => C12_CorrelatedById

\* the same, for a response that has exactly one block for each paragraph of the
\* batch, in any order
C12_CorrelatedWhenPermuted ==
    (/\ tp_pc = "done"
     /\ Len(ResponseLabels) = Len(tp_paragraphs)
     /\ \A k \in 1..Len(tp_paragraphs) :
          \E b \in 1..Len(ResponseLabels) :
             ResponseLabels[b] = <<ToString(tp_paragraphs[k].paragraph_id)>>)
    => C12_CorrelatedById

\* the values the page's formulas are inserted with, in page order: generate_pdf
\* writes ?? for a value with an empty-column array
InsertedValues ==
    [i \in 1..Len(th_result.formulas) |->
        IF th_pc = "done" /\ INVALID_ARRAY \in Range(th_result.formulas[i].value)
        THEN <<"??">> ELSE th_result.formulas[i].value]

\* C13: when the page has fewer formulas than its paragraphs have placeholders,
\* convert_paragraphs_to_latex and convert_paragraphs_with_translation_to_latex
\* return every paragraph, substitute the first len(formulas) placeholders in
\* reading order, each formula once, and leave every later placeholder as the
\* literal ":formula:".
C13_FormulaExhaustion ==
    (/\ th_pc \in {"done", "done_with_translation"}
     /\ Len(th_result.formulas) < TotalTokens)
    => /\ Len(th_latex) = Len(th_result.paragraphs)
       /\ \A j \in 1..Len(th_latex) :
            th_latex[j].content =
               SubstInOrder(EscapeLatex(th_result.paragraphs[j]), InsertedValues,
                            1 + TokensBefore(j))

\* a translated page of two paragraphs with three placeholders and one formula:
\* the first placeholder is substituted, a later one is left
C13_Witness ==
    /\ th_pc = "done_with_translation"
    /\ Len(th_result.formulas) = 1
    /\ Len(th_result.paragraphs) = 2
    /\ TotalTokens = 3
    /\ "$" \in Range(th_latex[1].content)
    /\ FORMULA \in Range(th_latex[2].content)

\* no returned paragraph holds the empty-column array environment
NoInvalidArray == \A j \in 1..Len(th_latex) : INVALID_ARRAY \notin Range(th_latex[j].content)

\* C19: in every formula-threading path (convert_paragraphs_to_latex,
\* convert_paragraphs_with_translation_to_latex,
\* convert_paragraphs_with_formula_id_to_latex) no returned paragraph content
\* contains '\begin{array}{}'.
C19_InvalidArrayNeverInserted ==
    th_pc \in {"done", "done_with_translation", "done_with_formula_id"} => NoInvalidArray

\* the same, for convert_paragraphs_to_latex and
\* convert_paragraphs_with_formula_id_to_latex only
C19_SanitizingPaths ==
    th_pc \in {"done", "done_with_formula_id"} => NoInvalidArray

\* the translated sections, by position in the section list, that hold the id
SectionsHolding(id) ==
    {s \in 1..Len(translated_sections) :
        \E j \in 1..Len(translated_sections[s].paragraphs) :
            translated_sections[s].paragraphs[j].paragraph_id = id}

\* the entry a translated section holds for the id
EntryIn(s, id) ==
    LET ps == translated_sections[s].paragraphs
    IN ps[CHOOSE j \in 1..Len(ps) : ps[j].paragraph_id = id]

\* C14: a page paragraph whose id occurs in translated sections comes out as the
\* entry of the last such section in the section list; in particular an id that
\* occurs in exactly one section maps to that section's entry.
C14_LastSectionWins ==
    rl_pc = "done" =>
        \A i \in 1..Len(pages) : \A j \in 1..Len(pages[i].paragraphs) :
            LET id == pages[i].paragraphs[j].paragraph_id
                holding == SectionsHolding(id)
            IN holding # {} =>
                  page_with_translations[i].paragraphs[j] =
                     EntryIn(CHOOSE s \in holding : \A t \in holding : t <= s, id)

\* a finished call in which a page paragraph's id occurs in two sections and
\* another one's in exactly one
C14_Witness ==
    /\ rl_pc = "done"
    /\ \E i \in 1..Len(pages) : \E j \in 1..Len(pages[i].paragraphs) :
         Cardinality(SectionsHolding(pages[i].paragraphs[j].paragraph_id)) = 2
    /\ \E i \in 1..Len(pages) : \E j \in 1..Len(pages[i].paragraphs) :
         Cardinality(SectionsHolding(pages[i].paragraphs[j].paragraph_id)) = 1

\* C15: each output page has the page_number, width, height, formulas,
\* display_formulas, figures and tables of the input page at the same position,
\* whatever the translated sections contain.
C15_PageFieldsCarriedOver ==
    rl_pc = "done" =>
        /\ Len(page_with_translations) = Len(pages)
        /\ \A i \in 1..Len(pages) :
             /\ page_with_translations[i].page_number = pages[i].page_number
             /\ page_with_translations[i].width = pages[i].width
             /\ page_with_translations[i].height = pages[i].height
             /\ page_with_translations[i].formulas = pages[i].formulas
             /\ page_with_translations[i].display_formulas = pages[i].display_formulas
             /\ page_with_translations[i].figures = pages[i].figures
             /\ page_with_translations[i].tables = pages[i].tables

\* a finished call on two pages, one of which had its paragraphs replaced by
\* translated entries
C15_Witness ==
    /\ rl_pc = "done"
    /\ Len(page_with_translations) = 2
    /\ \E i \in 1..Len(pages) : \E j \in 1..Len(pages[i].paragraphs) :
         /\ SectionsHolding(pages[i].paragraphs[j].paragraph_id) # {}
         /\ page_with_translations[i].paragraphs[j].translation
               # pages[i].paragraphs[j].content

\* C16: on a recognition result without pages (pages absent or empty)
\* get_document fails with an error instead of returning a Document.
C16_NoPagesFails ==
    (doc_pc = "done" /\ (doc_result.pages = NoneArray \/ doc_result.pages = <<>>))
    => doc_document.raised

\* the same, for a result whose pages are absent
C16_AbsentPagesFail ==
    (doc_pc = "done" /\ doc_result.pages = NoneArray) => doc_document.raised

\* the display-kind formulas of all pages, in page order and per-page order
RECURSIVE DisplayKindFormulas(_, _)
DisplayKindFormulas(doc_pages, page_number) ==
    IF page_number > Len(doc_pages) THEN <<>>
    ELSE LET shown == SelectSeq(doc_pages[page_number], LAMBDA f : f.kind = "display")
         IN [i \in 1..Len(shown) |->
                [latex_value |-> shown[i].value, page_number |-> page_number]]
            \o DisplayKindFormulas(doc_pages, page_number + 1)

\* C17: get_display_formulas of DevAzureOcrRepository returns exactly the
\* display-kind formulas, over all pages in page order and per-page order, and
\* never an inline-kind formula.
C17_DevOnlyDisplayFormulas ==
    (dev_pc = "done") => dev_returned = DisplayKindFormulas(dev_result.pages, 1)

\* the list returned holds every formula of every page, in page order
C17_DevAllFormulas ==
    (dev_pc = "done") =>
        /\ Len(dev_returned) = Len(AllFormulas(dev_result.pages, 1))
        /\ \A i \in 1..Len(dev_returned) :
              /\ dev_returned[i].latex_value = AllFormulas(dev_result.pages, 1)[i].formula.value
              /\ dev_returned[i].page_number = AllFormulas(dev_result.pages, 1)[i].page_number

\* the contents a section's references name in the result's paragraphs array,
\* in declared order
DeclaredContents(result, s) ==
    LET paragraph_ids == ElementIds(result.sections[s], "paragraphs")
    IN [i \in 1..Len(paragraph_ids) |-> result.paragraphs[paragraph_ids[i] + 1].content]

RefsInRange(result, s) ==
    \A n \in Range(ElementIds(result.sections[s], "paragraphs")) :
        n < Len(result.paragraphs)

SectionTexts(section) == [i \in 1..Len(section.paragraphs) |-> section.paragraphs[i].text]

\* C18: in DevAzureOcrRepository.get_sections a reference '/paragraphs/N' resolves
\* to the N-th entry of the result's paragraphs array, and a section's paragraphs
\* appear in the declared order of its references, for every result.
C18_DevResolvesDeclared ==
    (dev_pc \in {"analyzed", "done"}) =>
        \A s \in 1..Len(dev_result.sections) :
            RefsInRange(dev_result, s) =>
                SectionTexts(dev_sections.sections[s]) = DeclaredContents(dev_result, s)

Ascending(s) == \A i, j \in 1..Len(s) : i < j => s[i] < s[j]

\* the same for results whose paragraphs carry no role and lie in page order,
\* and sections whose references ascend
C18_DevResolvesPlain ==
    (/\ dev_pc \in {"analyzed", "done"}
     /\ \A i \in 1..Len(dev_result.paragraphs) : dev_result.paragraphs[i].role = "None"
     /\ \A i, j \in 1..Len(dev_result.paragraphs) :
           i < j => dev_result.paragraphs[i].page_number <= dev_result.paragraphs[j].page_number)
    => \A s \in 1..Len(dev_result.sections) :
          (RefsInRange(dev_result, s) /\ Ascending(ElementIds(dev_result.sections[s], "paragraphs")))
          => SectionTexts(dev_sections.sections[s]) = DeclaredContents(dev_result, s)

\* every paragraph a section is given is one its references name
C18_DevReturnsOnlyReferenced ==
    (dev_pc \in {"analyzed", "done"}) =>
        \A s \in 1..Len(dev_result.sections) :
            RefsInRange(dev_result, s) =>
                Range(SectionTexts(dev_sections.sections[s]))
                    \subseteq Range(DeclaredContents(dev_result, s))

\* C17 for AzureOcrRepository: get_display_formulas returns exactly the
\* display-kind formulas, over all pages in page order and per-page order
C17_OcrOnlyDisplayFormulas ==
    (oc_pc = "done") =>
        oc_returned =
            DisplayKindFormulas([p \in 1..Len(self_pages) |-> self_pages[p].formulas], 1)

\* the ':formula:' tokens of the first i lines of the page under analysis
RECURSIVE TokensUpTo(_, _)
TokensUpTo(lines, i) ==
    IF i = 0 THEN 0 ELSE TokensUpTo(lines, i - 1) + Count(lines[i], FORMULA)

\* the formula lists of the lines analysed so far, one after the other
RECURSIVE LineFormulasSoFar(_, _)
LineFormulasSoFar(lines, i) ==
    IF i = 0 THEN <<>> ELSE LineFormulasSoFar(lines, i - 1) \o lines[i].inline_formulas

IsPrefix(s, t) == Len(s) <= Len(t) /\ \A i \in 1..Len(s) : s[i] = t[i]

\* C20 as stated: every line with n ':formula:' tokens receives n inline
\* formulas, the next n from the cursor, so the k-th token of the page is bound
\* to the k-th inline formula.
C20_EveryTokenBound ==
    (oc_pc = "lines") =>
        LET lines == self_pages[oc_page].lines
            inline_formulas == InlineFormulas(self_pages[oc_page].formulas)
        IN \A i \in 1..Len(page_text_lines) :
              /\ Len(page_text_lines[i].inline_formulas) = Count(lines[i], FORMULA)
              /\ \A j \in 1..Count(lines[i], FORMULA) :
                    /\ TokensUpTo(lines, i - 1) + j <= Len(inline_formulas)
                    /\ page_text_lines[i].inline_formulas[j]
                         = inline_formulas[TokensUpTo(lines, i - 1) + j]

\* C20, amended: the cursor is the number of tokens of the lines analysed so
\* far; a line with n tokens receives the next n inline formulas, or as many as
\* are left when fewer than n are; the lists of successive lines, one after the
\* other, are a prefix of the page's inline formulas; no display-kind formula
\* is in any of them; and the k-th token of the page is bound to the k-th
\* inline formula whenever the page has at least k inline formulas.
C20_CursorSlices ==
    (oc_pc = "lines") =>
        LET lines == self_pages[oc_page].lines
            inline_formulas == InlineFormulas(self_pages[oc_page].formulas)
            done == Len(page_text_lines)
            left(i) == IF TokensUpTo(lines, i) >= Len(inline_formulas) THEN 0
                       ELSE Len(inline_formulas) - TokensUpTo(lines, i)
        IN /\ current_inline_formula_idx = TokensUpTo(lines, done)
           /\ IsPrefix(LineFormulasSoFar(page_text_lines, done), inline_formulas)
           /\ \A i \in 1..done :
                 /\ page_text_lines[i].text = lines[i]
                 /\ Len(page_text_lines[i].inline_formulas)
                      = IF Count(lines[i], FORMULA) <= left(i - 1)
                        THEN Count(lines[i], FORMULA) ELSE left(i - 1)
                 /\ \A j \in 1..Len(page_text_lines[i].inline_formulas) :
                       /\ page_text_lines[i].inline_formulas[j].kind = "inline"
                       /\ page_text_lines[i].inline_formulas[j]
                            = inline_formulas[TokensUpTo(lines, i - 1) + j]

\* two lines analysed, each holding a token and each given a formula, on a page
\* that also has a display formula
C20_Witness ==
    /\ oc_pc = "lines"
    /\ Len(page_text_lines) = MaxPageLines
    /\ \A i \in 1..Len(page_text_lines) : page_text_lines[i].inline_formulas # <<>>
    /\ \E i \in 1..Len(self_pages[oc_page].formulas) :
          self_pages[oc_page].formulas[i].kind = "display"

\* the cursor of a page's analysis never decreases
C20_CursorNeverDecreases ==
    [][(oc_pc = "lines" /\ oc_pc' = "lines")
         => current_inline_formula_idx' >= current_inline_formula_idx]_vars

\* the buckets of one kind against the flat array they were built from
BucketsByPage(array, num_pages, bucket(_)) ==
    IF array = NoneArray THEN \A pn \in 1..num_pages : bucket(pn) = <<>>
    ELSE /\ \A pn \in 1..num_pages :
              /\ Ascending(bucket(pn))
              /\ \A i \in 1..Len(bucket(pn)) :
                    /\ bucket(pn)[i] < Len(array)
                    /\ array[bucket(pn)[i] + 1] = pn
         /\ \A i \in 1..Len(array) :
               array[i] # 0 => (i - 1) \in Range(bucket(array[i]))

\* C21: the mapping get_paragraphs_in_page (get_figures_in_page,
\* get_tables_in_page) returns has exactly the keys 1..num_pages; every entity
\* with a bounding region is exactly once in the bucket of its first region's
\* page, under its index in the flat array; a bucket keeps flat-array order; a
\* page without entities of the kind has the empty list.
C21_BucketsByPage ==
    (doc_pc = "done" /\ ~doc_document.raised) =>
        LET num_pages == Len(doc_result.pages)
            paragraphs_in_page(pn) == doc_document.pages[pn].paragraphs
            tables_in_page(pn) == doc_document.pages[pn].tables
            figures_in_page(pn) == doc_document.pages[pn].figures
        IN /\ DOMAIN doc_document.pages = 1..num_pages
           /\ BucketsByPage(doc_result.paragraphs, num_pages, paragraphs_in_page)
           /\ BucketsByPage(doc_result.tables, num_pages, tables_in_page)
           /\ BucketsByPage(doc_result.figures, num_pages, figures_in_page)

\* two paragraphs on the first of two pages, none on the second, and a figure
\* without bounding region
C21_Witness ==
    /\ doc_pc = "done"
    /\ ~doc_document.raised
    /\ Len(doc_document.pages) = MaxDocPages
    /\ Len(doc_document.pages[1].paragraphs) > 1
    /\ doc_document.pages[MaxDocPages].paragraphs = <<>>
    /\ doc_result.figures = <<0>>

\* the styles with a span holding the line's start offset and a value for an
\* attribute, by position
Holding(span, offset) == span.offset <= offset /\ offset < span.offset + span.length

StylesSetting(value(_)) ==
    { i \in 1..Len(st_styles) :
        /\ value(st_styles[i]) # ""
        /\ \E k \in 1..Len(st_styles[i].spans) :
              Holding(st_styles[i].spans[k], line_span.offset) }

Last(S) == CHOOSE i \in S : \A j \in S : j <= i

LastMatchWins(result, value(_)) ==
    IF StylesSetting(value) = {} THEN result = "None"
    ELSE result = value(st_styles[Last(StylesSetting(value))])

StyleFont(style) == style.similar_font_family
StyleColor(style) == style.color
StyleFontWeight(style) == style.font_weight
StyleBackgroundColor(style) == style.background_color

\* C22: for each attribute the binary-search _get_line_style gives the value of
\* the last style, in declaration order, that sets the attribute and has a span
\* holding the line's start offset, else None; it agrees with the linear-scan
\* version on every style collection.
C22_BinaryLastMatchWins ==
    (st_pc = "done") =>
        /\ LastMatchWins(st_binary.font, StyleFont)
        /\ LastMatchWins(st_binary.color, StyleColor)
        /\ LastMatchWins(st_binary.font_weight, StyleFontWeight)
        /\ LastMatchWins(st_binary.background_color, StyleBackgroundColor)
        /\ st_binary = st_linear

\* the linear-scan version is last-match-wins per attribute
C22_LinearLastMatchWins ==
    (st_pc = "done") =>
        /\ LastMatchWins(st_linear.font, StyleFont)
        /\ LastMatchWins(st_linear.color, StyleColor)
        /\ LastMatchWins(st_linear.font_weight, StyleFontWeight)
        /\ LastMatchWins(st_linear.background_color, StyleBackgroundColor)

\* the two versions agree when every style's spans are sorted and disjoint
C22_AgreeOnSortedDisjoint ==
    (/\ st_pc = "done"
     /\ \A i \in 1..Len(st_styles) : \A k \in 1..(Len(st_styles[i].spans) - 1) :
           st_styles[i].spans[k].offset + st_styles[i].spans[k].length
               <= st_styles[i].spans[k + 1].offset)
    => st_binary = st_linear

\* the ':formula:' tokens of the paragraphs before paragraph j of a page
RECURSIVE TokensOfParagraphsBefore(_, _)
TokensOfParagraphsBefore(paragraphs, j) ==
    IF j <= 1 THEN 0
    ELSE TokensOfParagraphsBefore(paragraphs, j - 1) + Count(paragraphs[j - 1].content, FORMULA)

\* C23: after ChangeFormulaIdUseCase.execute no page paragraph content holds
\* ':formula:'; on each page the k-th ':formula:' in reading order has become
\* the tag of index k-1 (indices start at 0 on every page, no gap, no repeat);
\* all other text of a paragraph is unchanged.
C23_TagsNumberedPerPage ==
    (cf_pc = "done") =>
        /\ Len(cf_pages) = Len(cf_input)
        /\ \A p \in 1..Len(cf_input) :
              /\ Len(cf_pages[p]) = Len(cf_input[p])
              /\ \A j \in 1..Len(cf_input[p]) :
                    LET before == cf_input[p][j].content
                        after == cf_pages[p][j].content
                    IN /\ cf_pages[p][j].paragraph_id = cf_input[p][j].paragraph_id
                       /\ Len(after) = Len(before)
                       /\ Count(after, FORMULA) = 0
                       /\ \A i \in 1..Len(before) :
                             after[i] =
                                IF before[i] = FORMULA
                                THEN ChangeFormulaTag(
                                        TokensOfParagraphsBefore(cf_input[p], j)
                                        + Count(SubSeq(before, 1, i - 1), FORMULA))
                                ELSE before[i]

\* two pages, the first with tokens in two paragraphs, the second with a token
C23_Witness ==
    /\ cf_pc = "done"
    /\ Len(cf_input) > 1
    /\ Len(cf_input[1]) > 1
    /\ \A j \in 1..Len(cf_input[1]) : Count(cf_input[1][j].content, FORMULA) > 0
    /\ \E j \in 1..Len(cf_input[2]) : Count(cf_input[2][j].content, FORMULA) > 0

\* the text a tagged paragraph should render to: a tag whose index is a formula
\* id of the page becomes '$v$', everything else is escaped
RECURSIVE RenderedTags(_, _)
RenderedTags(content, formulas) ==
    IF content = <<>> THEN <<>>
    ELSE LET hit == {i \in 1..Len(formulas) :
                        Head(content) = ChangeFormulaTag(formulas[i].formula_id)}
         IN (IF hit = {} THEN <<EscapeChar(Head(content))>>
             ELSE <<"$">> \o RepairArray(formulas[CHOOSE i \in hit : TRUE].latex_value)
                  \o <<"$">>)
            \o RenderedTags(Tail(content), formulas)

\* C27: every tag ChangeFormulaIdUseCase writes (index k smaller than the number
\* of the page's formulas) and the translation keeps is replaced by '$v$' in
\* convert_paragraphs_with_formula_id_to_latex, v the value of the formula with
\* formula_id k; no tag text remains.
C27_TagRoundTrip ==
    (th_pc = "done_of_tagged") =>
        \A i \in 1..Len(th_latex) :
            /\ th_latex[i].content = RenderedTags(th_page.paragraphs[i].content, th_page.formulas)
            /\ \A k \in 0..(Len(th_page.formulas) - 1) :
                  /\ Count(th_latex[i].content, ChangeFormulaTag(k)) = 0
                  /\ Count(th_latex[i].content, EscapedChangeFormulaTag(k)) = 0

\* the tags are left in the rendered text, escaped
C27_TagsLeftEscaped ==
    (th_pc = "done_of_tagged") =>
        \A i \in 1..Len(th_latex) :
            th_latex[i].content = EscapeLatex(th_page.paragraphs[i].content)

\* C24: execute_async does not change the section list it is given: the
\* caller's list holds the same sections in the same order after the call.
C24_SectionsNotMutated == [][as_sections' = as_sections]_vars

\* the caller's list holds the same sections after the call, in some order
C24_SameSectionsKept ==
    [][ /\ Len(as_sections') = Len(as_sections)
        /\ Range(as_sections') = Range(as_sections) ]_vars

\* C28: for every section of non-zero content length the chunks sent to the
\* provider are non-empty, their concatenation in chunk order is
\* section.paragraphs, a chunk's content length exceeds LIMIT only if it is one
\* paragraph, and the section's translated paragraphs are the chunk results in
\* chunk order, whatever the order in which the chunk requests finish.
C28_Chunking ==
    (as_pc = "returned") =>
        \A t \in 1..Len(as_sections) :
            LET section == as_sections[t]
                chunks == SectionChunks(section)
            IN SectionContentLength(section) > 0 =>
                  /\ Len(as_tasks[t]) = Len(chunks)
                  /\ \A c \in 1..Len(chunks) :
                        /\ chunks[c] # <<>>
                        /\ SumLengths(chunks[c]) > LIMIT => Len(chunks[c]) = 1
                  /\ Concat(chunks) = section.paragraphs
                  /\ \E r \in 1..Len(sections_with_translation) :
                        /\ sections_with_translation[r].section_id = section.section_id
                        /\ Len(sections_with_translation[r].paragraphs)
                             = Len(section.paragraphs)
                        /\ \A j \in 1..Len(section.paragraphs) :
                              sections_with_translation[r].paragraphs[j].paragraph_id
                                 = section.paragraphs[j].paragraph_id

\* a section cut into a chunk of two paragraphs and a chunk of one has returned
C28_Witness ==
    /\ as_pc = "returned"
    /\ \E t \in 1..Len(as_sections) :
          /\ Len(SectionChunks(as_sections[t])) > 1
          /\ Len(SectionChunks(as_sections[t])[1]) > 1
          /\ Len(sections_with_translation[1].paragraphs) > 0

\* C25: rendering does not change the pages it is given (every paragraph
\* content and translation, every formula value), so a second rendering of the
\* same pages threads the same text as the first.
C25_PagesNotMutated ==
    /\ rn_pc \in {"once", "twice"} => rn_page = rn_input
    /\ rn_pc = "twice" => rn_second = rn_first

\* the same for the two use cases that render a deep copy of the page
C25_CopiedPagesNotMutated ==
    (rn_usecase \in {OCR, WITH_FORMULA_ID}) =>
        /\ rn_pc \in {"once", "twice"} => rn_page = rn_input
        /\ rn_pc = "twice" => rn_second = rn_first

\* C26: in AzureOcrRepository.get_sections the page cache holds an entry for
\* every page of the document before the first section task starts, and every
\* section task finds the entries of the pages whose paragraphs it resolves.
C26_CacheCompleteBeforeSections ==
    (repo_pc = "sections") =>
        /\ \A p \in 1..Len(repo_self.pages.value) :
              [page_number |-> p, doc |-> repo_self.pages.doc] \in repo_cache
        /\ repo_call = 1 => repo_failed = {}

\* no cache entry is written while the section tasks run
C26_CacheReadOnlyDuringSections ==
    [][repo_pc = "sections" => repo_cache' = repo_cache]_vars

\* the cache is complete for a document read when the styles were assigned
C26_CacheCompleteWithStyles ==
    (repo_pc = "sections" /\ repo_call = 1 /\ repo_self.styles.doc # 0) =>
        /\ \A p \in 1..Len(repo_self.pages.value) :
              [page_number |-> p, doc |-> repo_self.pages.doc] \in repo_cache
        /\ repo_failed = {}

\* C30: get_sections for a second document on the same instance returns
\* sections computed only from the second document's result: no section,
\* paragraph or cache entry of the first document is in them.
C30_SecondCallOwnResult ==
    (repo_call = 2 /\ repo_pc = "returned") =>
        /\ Len(repo_sections) <= Len(repo_results[2].sections)
        /\ \A s \in 1..Len(repo_sections) :
              /\ repo_sections[s].doc = 2
              /\ \A i \in 1..Len(repo_sections[s].paragraphs) :
                    /\ repo_sections[s].paragraphs[i].doc = 2
                    /\ repo_sections[s].paragraphs[i].cache_doc = 2

\* the first call on a new instance returns sections of its own document only
C30_FirstCallOwnResult ==
    (repo_call = 1 /\ repo_pc = "returned") =>
        \A s \in 1..Len(repo_sections) :
            /\ repo_sections[s].doc = 1
            /\ \A i \in 1..Len(repo_sections[s].paragraphs) :
                  /\ repo_sections[s].paragraphs[i].doc = 1
                  /\ repo_sections[s].paragraphs[i].cache_doc = 1

AllRaised(attempts) == \A i \in 1..Len(attempts) : attempts[i] = "raised"

C29_RetryInvariant ==
    /\ Len(rt_attempts) <= retry_limit
    /\ \A i \in 1..Len(rt_attempts) :
          rt_attempts[i] = "returned" => i = Len(rt_attempts) /\ rt_pc = "returned"
    /\ (rt_pc = "returned") =>
          /\ rt_attempts # <<>>
          /\ rt_attempts[Len(rt_attempts)] = "returned"
          /\ rt_result[1] = "returned"
          /\ rt_result[2] \in {RetrySuccess(response) : response \in RetryResponses}
    /\ (rt_pc = "raised") <=>
          /\ rt_result # <<>>
          /\ rt_result[1] = "raised"
          /\ rt_result[2] = "Failed to translate"
          /\ Len(rt_attempts) = retry_limit
          /\ AllRaised(rt_attempts)
    /\ (rt_pc = "loop") => AllRaised(rt_attempts) /\ rt_result = <<>>

C29_RetryTerminates == <>(rt_pc \in {"returned", "raised"})

\* C29: _request_translate calls the provider at most retry_limit times, returns
\* the first successful response at once without a further call, raises
\* 'Failed to translate' exactly when all retry_limit attempts raised (without
\* any call when retry_limit = 0), and always terminates.
C29_RequestTranslate == []C29_RetryInvariant /\ C29_RetryTerminates

\* all attempts of a positive retry_limit raised and the exception went out
C29_Witness ==
    /\ rt_pc = "raised"
    /\ retry_limit >= 2
    /\ Len(rt_attempts) = retry_limit

\* a response returned after a failed attempt, attempts left unused
C29_WitnessReturned ==
    /\ rt_pc = "returned"
    /\ Len(rt_attempts) = 2
    /\ retry_limit > 2

====
